---- MODULE Spec2Model ----
(***************************************************************************)
(* A model of the newdns authoritative DNS server: the request handler     *)
(* (Server.handler), the CNAME-following lookup loop (Server.lookup), set  *)
(* and zone validation, and the reply writers with EDNS and UDP            *)
(* truncation.  Strings are sequences of one-character strings, so the     *)
(* string helpers of tools.go are computed character by character.         *)
(* Durations are in milliseconds.                                          *)
(***************************************************************************)
EXTENDS Integers, Sequences, FiniteSets, TLC

(***************************************************************************)
(* Bounds of the model.                                                    *)
(***************************************************************************)
\* the passes of one lookup the model follows (the loop itself has no bound)
MaxFetch == 9
\* number of records in the long TXT set
MaxTxtRecords == 2
\* the calls of Close the model makes
MaxClose == 3

(***************************************************************************)
(* Strings.                                                                *)
(***************************************************************************)
\* strings.ToLower, on the letters the model uses in upper case
Lower(c) == CASE c = "A" -> "a" [] c = "Z" -> "z" [] OTHER -> c

ToLower(s) == [i \in 1..Len(s) |-> Lower(s[i])]

\* byte order of the characters the model uses
CharRank(c) ==
    CASE c = " " -> 32 [] c = "." -> 46 [] c = "0" -> 48 [] c = "1" -> 49
      [] c = "2" -> 50 [] c = "3" -> 51 [] c = "4" -> 52 [] c = "5" -> 53
      [] c = "6" -> 54 [] c = "7" -> 55 [] c = "8" -> 56 [] c = "9" -> 57
      [] c = ":" -> 58
      [] c = "@" -> 64 [] c = "A" -> 65 [] c = "Z" -> 90 [] c = "\\" -> 92
      [] c = "a" -> 97 [] c = "b" -> 98 [] c = "c" -> 99 [] c = "h" -> 104
      [] c = "m" -> 109 [] c = "n" -> 110 [] c = "o" -> 111 [] c = "x" -> 120
      [] c = "z" -> 122 [] OTHER -> 127

RECURSIVE StrLessFrom(_, _, _)
StrLessFrom(a, b, i) ==
    IF i > Len(b) THEN FALSE
    ELSE IF i > Len(a) THEN TRUE
    ELSE IF CharRank(a[i]) # CharRank(b[i]) THEN CharRank(a[i]) < CharRank(b[i])
    ELSE StrLessFrom(a, b, i + 1)

\* Go's < on strings
StrLess(a, b) == StrLessFrom(a, b, 1)

RECURSIVE SplitFrom(_, _, _, _)
SplitFrom(s, sep, i, cur) ==
    IF i > Len(s) THEN <<cur>>
    ELSE IF s[i] = sep THEN <<cur>> \o SplitFrom(s, sep, i + 1, <<>>)
    ELSE SplitFrom(s, sep, i + 1, Append(cur, s[i]))

\* strings.Split(s, sep) for a one-character separator
Split(s, sep) == SplitFrom(s, sep, 1, <<>>)

RECURSIVE Join(_, _)
\* strings.Join(parts, sep)
Join(parts, sep) ==
    IF parts = <<>> THEN <<>>
    ELSE IF Len(parts) = 1 THEN parts[1]
    ELSE parts[1] \o sep \o Join(Tail(parts), sep)

\* strings.Index(s, sub): 0-based index of the first occurrence, -1 if none
Index(s, sub) ==
    LET hits == {i \in 0..(Len(s) - Len(sub)) :
                    \A k \in 1..Len(sub) : s[i + k] = sub[k]}
    IN  IF hits = {} THEN -1 ELSE CHOOSE i \in hits : \A j \in hits : i <= j

\* the decimal digit d as a character
DigitChar(d) == <<"0", "1", "2", "3", "4", "5", "6", "7", "8", "9">>[d + 1]

RECURSIVE Itoa(_)
\* strconv.Itoa(n), n >= 0
Itoa(n) ==
    IF n < 10 THEN <<DigitChar(n)>>
    ELSE Itoa(n \div 10) \o <<DigitChar(n % 10)>>

\* fmt.Sprintf("%05d", n), n >= 0: the digits, padded with zeros to five
Sprintf05d(n) ==
    LET digits == Itoa(n)
    IN  [k \in 1..(5 - Len(digits)) |-> "0"] \o digits

(***************************************************************************)
(* Domain names (the codec's helpers as tools.go uses them).               *)
(***************************************************************************)
\* dns.IsFqdn
IsFqdn(s) == Len(s) > 0 /\ s[Len(s)] = "."

\* dns.IsDomainName: not empty and no two dots back to back
IsDomainName(s) ==
    /\ Len(s) > 0
    /\ \A i \in 1..(Len(s) - 1) : ~(s[i] = "." /\ s[i + 1] = ".")

\* dns.Fqdn
Fqdn(s) == IF IsFqdn(s) THEN s ELSE s \o <<".">>

\* dns.SplitDomainName: the labels of a name, the root has none
SplitDomainName(s) ==
    IF s = <<>> \/ s = <<".">> THEN <<>>
    ELSE LET parts == Split(s, ".")
         IN  IF parts[Len(parts)] = <<>> THEN SubSeq(parts, 1, Len(parts) - 1)
             ELSE parts

\* dns.CountLabel
CountLabel(s) == Len(SplitDomainName(s))

\* dns.CompareDomainName: number of labels shared from the right, lower-cased
CompareDomainName(s1, s2) ==
    LET l1 == SplitDomainName(ToLower(s1))
        l2 == SplitDomainName(ToLower(s2))
        m  == IF Len(l1) < Len(l2) THEN Len(l1) ELSE Len(l2)
        same(k) == \A j \in 1..k : l1[Len(l1) - j + 1] = l2[Len(l2) - j + 1]
    IN  CHOOSE k \in 0..m : same(k) /\ (k = m \/ ~same(k + 1))

\* dns.IsSubDomain
IsSubDomain(parent, child) == CompareDomainName(parent, child) = CountLabel(parent)

IsDomain(name, fqdn) == IsDomainName(name) /\ (~fqdn \/ IsFqdn(name))

InZone(zone, name) ==
    /\ IsDomain(zone, FALSE)
    /\ IsDomain(name, FALSE)
    /\ IsSubDomain(zone, name)

\* a slip: a name at the apex is returned as it is
TrimZone_ApexKept(zone, name) ==
    IF ~InZone(zone, name) \/ CountLabel(name) = CountLabel(zone) THEN name
    ELSE LET labels == SplitDomainName(name)
         IN  Join(SubSeq(labels, 1, Len(labels) - CountLabel(zone)), <<".">>)

\* TrimZone: the leading labels of a name of the zone, joined by dots
TrimZone(zone, name) ==
    IF ~InZone(zone, name) THEN name
    ELSE LET labels == SplitDomainName(name)
         IN  Join(SubSeq(labels, 1, Len(labels) - CountLabel(zone)), <<".">>)

transferCase(source, destination) ==
    LET index == Index(ToLower(source), ToLower(destination))
    IN  IF index < 0 THEN destination
        ELSE SubSeq(source, index + 1, Len(source))

\* time.Duration (milliseconds here) to whole seconds, rounded up
durationToTime(d) == (d + 999) \div 1000

RECURSIVE EscapeDots(_)
\* strings.ReplaceAll(s, ".", "\\.")
EscapeDots(s) ==
    IF s = <<>> THEN <<>>
    ELSE IF Head(s) = "." THEN <<"\\", ".">> \o EscapeDots(Tail(s))
    ELSE <<Head(s)>> \o EscapeDots(Tail(s))

\* emailToDomain indexes parts[1]: it needs an "@" in the address
emailHasAt(email) == Len(Split(email, "@")) >= 2

emailToDomain(email) ==
    LET parts == Split(email, "@")
    IN  Fqdn(EscapeDots(parts[1]) \o <<".">> \o parts[2])

(***************************************************************************)
(* Record types, records and sets.                                         *)
(***************************************************************************)
\* a nil error
NoErr == "nil"

\* Type.valid
TypeValid(t) == t \in {"A", "AAAA", "CNAME", "MX", "TXT"}

\* the strings net.ParseIP accepts, by address family
IPv4Literals == {<<"1", ".", "1">>, <<"1", ".", "2">>}
IPv6Literals == {<<"1", ":", ":">>}

\* net.ParseIP(s) != nil
ParseIPOk(s) == s \in IPv4Literals \cup IPv6Literals

\* net.ParseIP(s).To4() != nil
To4Ok(s) == s \in IPv4Literals

\* net.ParseIP(s).To16() != nil: every parsed address has a 16 byte form
To16Ok(s) == ParseIPOk(s)

\* Record.Validate: the error, or NoErr
RecordValidate(r, typ) ==
    IF typ = "A" /\ (~ParseIPOk(r.Address) \/ ~To4Ok(r.Address))
        THEN "invalid IPv4 address"
    ELSE IF typ = "AAAA" /\ (~ParseIPOk(r.Address) \/ ~To16Ok(r.Address))
        THEN "invalid IPv6 address"
    ELSE IF typ \in {"CNAME", "MX"} /\ ~IsDomain(r.Address, TRUE)
        THEN "invalid domain address"
    ELSE IF typ = "TXT" /\ Len(r.Data) = 0
        THEN "missing data"
    ELSE IF typ = "TXT" /\ \E i \in 1..Len(r.Data) : r.Data[i].len > 255
        THEN "data too long"
    ELSE NoErr

\* the default TTL of a set, 5 minutes
DefaultSetTTL == 300000

\* the order Set.Validate sorts the records of a set of type typ by: TXT by
\* the first data element, MX by priority and address, the others by address
less(typ, a, b) ==
    IF typ = "TXT" THEN StrLess(a.Data[1].text, b.Data[1].text)
    ELSE IF typ = "MX"
        THEN StrLess(Sprintf05d(a.Priority) \o <<" ">> \o a.Address,
                     Sprintf05d(b.Priority) \o <<" ">> \o b.Address)
    ELSE StrLess(a.Address, b.Address)

\* sort.SliceIsSorted: no record is less than the one before it
SliceIsSorted(typ, recs) ==
    \A i \in 2..Len(recs) : ~less(typ, recs[i], recs[i - 1])

\* the records with those at positions i and j exchanged
SwapRecords(recs, i, j) == [recs EXCEPT ![i] = recs[j], ![j] = recs[i]]

RECURSIVE SinkRecord(_, _, _)
\* the inner loop of the insertion sort: the record at position j moves
\* down while it is less than the one before it
SinkRecord(typ, recs, j) ==
    IF j > 1 /\ less(typ, recs[j], recs[j - 1])
    THEN SinkRecord(typ, SwapRecords(recs, j, j - 1), j - 1)
    ELSE recs

RECURSIVE InsertionSort(_, _, _)
InsertionSort(typ, recs, i) ==
    IF i > Len(recs) THEN recs
    ELSE InsertionSort(typ, SinkRecord(typ, recs, i), i + 1)

\* a slip: the records are reversed instead of sorted
SortSlice_Reversed(typ, recs) == [k \in 1..Len(recs) |-> recs[Len(recs) + 1 - k]]

\* sort.Slice on fewer than twelve records: an insertion sort
SortSlice(typ, recs) == InsertionSort(typ, recs, 2)

\* Set.Validate from its first check on, sorted being the records of the
\* set in their order after the sort
validateSorted(s, sorted) ==
    LET bad == {i \in 1..Len(s.Records) : RecordValidate(s.Records[i], s.Type) # NoErr}
        dup == {i \in 1..(Len(sorted) - 1) : sorted[i].Address = sorted[i + 1].Address}
        fail(e) == [err |-> e, set |-> s]
    IN  IF ~IsDomain(s.Name, TRUE) THEN fail("invalid name")
        ELSE IF ~TypeValid(s.Type) THEN fail("invalid type")
        ELSE IF Len(s.Records) = 0 THEN fail("missing records")
        ELSE IF s.Type = "CNAME" /\ Len(s.Records) > 1 THEN fail("multiple CNAME records")
        ELSE IF bad # {} THEN fail("invalid record")
        ELSE IF Len(sorted) > 1 /\ s.Type # "TXT" /\ dup # {}
            THEN [err |-> "duplicate address", set |-> [s EXCEPT !.Records = sorted]]
        ELSE [err |-> NoErr,
              set |-> [s EXCEPT !.Records = sorted,
                                !.TTL = IF s.TTL = 0 THEN DefaultSetTTL ELSE s.TTL]]

\* Set.Validate: the error (or NoErr) and the set as the call leaves it
SetValidate(s) ==
    validateSorted(s, IF SliceIsSorted(s.Type, s.Records) THEN s.Records
                      ELSE SortSlice(s.Type, s.Records))

(***************************************************************************)
(* Zones.                                                                  *)
(***************************************************************************)
Hour == 3600000
Minute == 60000

RECURSIVE Insert(_, _)
Insert(sorted, x) ==
    IF sorted = <<>> THEN <<x>>
    ELSE IF StrLess(x, Head(sorted)) THEN <<x>> \o sorted
    ELSE <<Head(sorted)>> \o Insert(Tail(sorted), x)

RECURSIVE SortStrings(_)
\* sort.Strings
SortStrings(list) ==
    IF list = <<>> THEN <<>>
    ELSE Insert(SortStrings(SubSeq(list, 1, Len(list) - 1)), list[Len(list)])

\* the largest and the smallest time.Duration.  A time.Duration is a signed
\* 64 bit count of nanoseconds; the model counts milliseconds in 32 bits.
MaxInt == 2147483647
MinInt == -MaxInt - 1

\* a + b on time.Duration: the sum wraps around
DurationAdd(a, b) ==
    IF b >= 0 /\ a > MaxInt - b THEN (a - MaxInt - 1) + (b - MaxInt - 1)
    ELSE IF b < 0 /\ a < MinInt - b THEN (a + MaxInt + 1) + (b + MaxInt + 1)
    ELSE a + b

\* the run-time panic of an index out of range
IndexPanic == "panic: index out of range"

\* a slip: the name servers are turned around instead of sorted
sortedServers_Reversed(z) ==
    [z EXCEPT !.AllNameServers =
        [k \in 1..Len(z.AllNameServers) |-> z.AllNameServers[Len(z.AllNameServers) + 1 - k]]]

\* the zone with its name servers sorted
sortedServers(z) == [z EXCEPT !.AllNameServers = SortStrings(z.AllNameServers)]

\* the zone with the default admin email, if it has none
defaultEmail(z1) ==
    [z1 EXCEPT !.AdminEmail =
        IF z1.AdminEmail = <<>>
        THEN <<"h", "o", "s", "t", "m", "a", "s", "t", "e", "r", "@">> \o z1.Name
        ELSE z1.AdminEmail]

\* the zone with the default durations, where it has none
defaultDurations(z2) ==
    [z2 EXCEPT
        !.Refresh = IF z2.Refresh = 0 THEN 6 * Hour ELSE z2.Refresh,
        !.Retry   = IF z2.Retry = 0 THEN Hour ELSE z2.Retry,
        !.Expire  = IF z2.Expire = 0 THEN 72 * Hour ELSE z2.Expire,
        !.SOATTL  = IF z2.SOATTL = 0 THEN 15 * Minute ELSE z2.SOATTL,
        !.NSTTL   = IF z2.NSTTL = 0 THEN 48 * Hour ELSE z2.NSTTL,
        !.MinTTL  = IF z2.MinTTL = 0 THEN 5 * Minute ELSE z2.MinTTL]

\* the checks of Zone.Validate in their order: z is the zone as given, z2
\* the zone once the admin email is set, z3 the zone once the durations are
zoneChecks(z, z2, z3) ==
    IF ~IsDomain(z.Name, TRUE)
        THEN [err |-> "name not fully qualified", zone |-> z]
    ELSE IF ~IsDomain(z.MasterNameServer, TRUE)
        THEN [err |-> "master server not full qualified", zone |-> z]
    ELSE IF Len(z.AllNameServers) < 1
        THEN [err |-> "missing name server", zone |-> z]
    ELSE IF \E i \in 1..Len(z.AllNameServers) : ~IsDomain(z.AllNameServers[i], TRUE)
        THEN [err |-> "name server not fully qualified", zone |-> z]
    ELSE IF ~emailHasAt(z2.AdminEmail)
        THEN [err |-> IndexPanic, zone |-> z2]
    ELSE IF ~IsDomain(emailToDomain(z2.AdminEmail), TRUE)
        THEN [err |-> "admin email cannot be converted to a domain name", zone |-> z2]
    ELSE IF z3.Retry >= z3.Refresh
        THEN [err |-> "retry must be less than refresh", zone |-> z3]
    ELSE IF z3.Expire < DurationAdd(z3.Refresh, z3.Retry)
        THEN [err |-> "expire must be bigger than the sum of refresh and retry", zone |-> z3]
    ELSE [err |-> NoErr, zone |-> z3]

\* Zone.Validate: the error (or NoErr, or the panic that ends the call) and
\* the zone as the call leaves it
ZoneValidate(z) ==
    zoneChecks(z, defaultEmail(sortedServers(z)),
               defaultDurations(defaultEmail(sortedServers(z))))

\* the names of the model
ZoneName == <<"z", ".">>
NameA == <<"a", ".", "z", ".">>
NameB == <<"b", ".", "z", ".">>
NameC == <<"c", ".", "z", ".">>
ApexUpper == <<"Z", ".">>
\* a name of the zone z. in mixed case, in which the name of the zone also
\* occurs in front
NameMixed == <<"Z", ".", "z", ".">>
ExtName == <<"x", ".">>
MailExt == <<"m", ".", "x", ".">>
NS1 == <<"n", ".", "x", ".">>
NS2 == <<"o", ".", "x", ".">>

\* the zone of the conformance tests: explicit timers
TestZone ==
    [Name |-> ZoneName, MasterNameServer |-> NS1, AllNameServers |-> <<NS2, NS1>>,
     AdminEmail |-> <<"h", ".", "m", "@", "x", ".">>,
     Refresh |-> 2 * Hour, Retry |-> 15 * Minute, Expire |-> 336 * Hour,
     SOATTL |-> 15 * Minute, NSTTL |-> 48 * Hour, MinTTL |-> 1500]

\* a zone that leaves every optional field to its default
PlainZone ==
    [Name |-> ZoneName, MasterNameServer |-> NS1, AllNameServers |-> <<NS1>>,
     AdminEmail |-> <<>>,
     Refresh |-> 0, Retry |-> 0, Expire |-> 0, SOATTL |-> 0, NSTTL |-> 0, MinTTL |-> 0]

\* a zone whose retry is not below its refresh
BrokenZone == [TestZone EXCEPT !.Retry = 3 * Hour]

\* what Config.Handler may return: an error, no zone, or one of the zones
\* a zone whose name is written in upper case
UpperZone == [PlainZone EXCEPT !.Name = ApexUpper]

Zones == {TestZone, PlainZone, BrokenZone, UpperZone}

(***************************************************************************)
(* The zone's record provider (Zone.Handler): a pure function of the       *)
(* relative name.  What it returns for a name is one of the results below. *)
(***************************************************************************)
\* the fully qualified owner of the sets returned for a relative name
HandlerOwner(key) ==
    IF key = <<>> THEN ZoneName
    ELSE IF IsFqdn(key) THEN key
    ELSE key \o <<".">> \o ZoneName

Rec(addr) == [Address |-> addr, Priority |-> 0, Data |-> <<>>]
MxRec(prio, addr) == [Address |-> addr, Priority |-> prio, Data |-> <<>>]
TxtRec(data) == [Address |-> <<>>, Priority |-> 0, Data |-> data]

\* a text of one character as an element of the data of a TXT record
Txt1(c) == [text |-> <<c>>, len |-> 1]

MkSet(name, typ, records, ttl) ==
    [Name |-> name, Type |-> typ, Records |-> records, TTL |-> ttl]

\* the targets a CNAME set of the model may point at
CnameTargets == <<NameA, NameB, ExtName, ApexUpper>>

ASet(o) == MkSet(o, "A", <<Rec(<<"1", ".", "1">>), Rec(<<"1", ".", "2">>)>>, 0)
AAAASet(o) == MkSet(o, "AAAA", <<Rec(<<"1", ":", ":">>)>>, 10 * Minute)
\* the second record has a priority above the 16 bits of a preference
MXSet(o) == MkSet(o, "MX", <<MxRec(10, NameB), MxRec(65536 + 20, MailExt)>>, 10 * Minute)
LongTXTSet(o) ==
    MkSet(o, "TXT",
          [i \in 1..MaxTxtRecords |-> TxtRec(<<[text |-> Itoa(i), len |-> 255]>>)], 1000)
CNAMESet(o, target) == MkSet(o, "CNAME", <<Rec(target)>>, 0)

\* the results that do not depend on a CNAME target: a handler error, no set,
\* A and AAAA, a long TXT set, an MX set, two A sets, a CNAME set next to
\* another set, and an A set whose address does not parse
FixedResults(o) ==
    <<[sets |-> <<>>, err |-> "EOF"],
      [sets |-> <<>>, err |-> NoErr],
      [sets |-> <<ASet(o), AAAASet(o)>>, err |-> NoErr],
      [sets |-> <<LongTXTSet(o)>>, err |-> NoErr],
      [sets |-> <<MXSet(o)>>, err |-> NoErr],
      [sets |-> <<ASet(o), ASet(o)>>, err |-> NoErr],
      [sets |-> <<CNAMESet(o, ExtName), AAAASet(o)>>, err |-> NoErr],
      [sets |-> <<MkSet(o, "A", <<Rec(<<"n", "o">>)>>, 0)>>, err |-> NoErr]>>

NumFixedResults == Len(FixedResults(ZoneName))
NumResults == NumFixedResults + Len(CnameTargets)

\* the result with number opt for the relative name key: the fixed ones first,
\* then a lone CNAME set per target
HandlerResult(key, opt) ==
    LET o == HandlerOwner(key)
    IN  IF opt <= NumFixedResults THEN FixedResults(o)[opt]
        ELSE [sets |-> <<CNAMESet(o, CnameTargets[opt - NumFixedResults])>>,
              err |-> NoErr]

\* a handler that returns sets owned by a name of its own choice: the result
\* with number opt, its sets owned by o
OwnedResult(o, opt) ==
    IF opt <= NumFixedResults THEN FixedResults(o)[opt]
    ELSE [sets |-> <<CNAMESet(o, CnameTargets[opt - NumFixedResults])>>,
          err |-> NoErr]

(***************************************************************************)
(* Server.lookup: one pass of its loop.  h is what Zone.Handler returned   *)
(* for TrimZone(zone.Name, name); i counts the passes made before; res are *)
(* the results collected so far; needle is the set of requested types.     *)
(* The outcome either continues the loop at a new name or returns.         *)
(***************************************************************************)
\* a slip: the CNAME set is put in front of the results
Chase_InFront(res, name, set) == <<[name |-> name, set |-> set]>> \o res

\* the CNAME set of the current name is added to the results
Chase(res, name, set) == Append(res, [name |-> name, set |-> set])

\* an element of the slice Zone.Handler returned, after the loop of the
\* lookup has validated it: the loop validates a copy of the element, which
\* shares its records, so that the sort is kept and the default TTL is lost
Stored(set) == [set EXCEPT !.Records = SetValidate(set).set.Records]

\* what Zone.Handler returned, as one pass of the lookup leaves it: the sets
\* up to the first invalid one have been validated
AfterPass(h) ==
    LET invalid == {k \in 1..Len(h.sets) : SetValidate(h.sets[k]).err # NoErr}
    IN  IF h.err # NoErr THEN h
        ELSE [h EXCEPT !.sets =
                 [k \in 1..Len(h.sets) |->
                     IF \A j \in invalid : k <= j THEN Stored(h.sets[k])
                     ELSE h.sets[k]]]

\* a slip: the CNAME set is followed whatever the requested types
FollowsCNAME_Always(needle) == TRUE

\* the CNAME set of a name is followed unless CNAME is a requested type
FollowsCNAME(needle) == "CNAME" \notin needle

\* the pass, validated being what Set.Validate made of each of the sets
lookupChecks(z, h, validated, name, i, res, needle) ==
    LET given    == h.sets
        sets     == [k \in 1..Len(given) |->
                        [given[k] EXCEPT !.Records = validated[k].set.Records]]
        invalid  == {k \in 1..Len(given) : validated[k].err # NoErr}
        firstBad == CHOOSE k \in invalid : \A j \in invalid : k <= j
        count(t) == Cardinality({k \in 1..Len(sets) : sets[k].Type = t})
        matching == {k \in 1..Len(sets) : sets[k].Type \in needle}
        first    == CHOOSE k \in matching : \A j \in matching : k <= j
        found    == IF matching = {} THEN res
                    ELSE Append(res, [name |-> name, set |-> sets[first]])
        chased   == Chase(res, name, sets[1])
        return(r, x, e) == [done |-> TRUE, name |-> name, res |-> r, exists |-> x, err |-> e]
    IN  IF h.err # NoErr THEN return(<<>>, FALSE, h.err)
        ELSE IF i = 0 /\ Len(sets) = 0 THEN return(<<>>, FALSE, NoErr)
        ELSE IF invalid # {} THEN return(<<>>, FALSE, validated[firstBad].err)
        ELSE IF \E k \in 1..Len(sets) : count(sets[k].Type) > 1
            THEN return(<<>>, FALSE, "multiple sets for same type")
        ELSE IF count("CNAME") > 0 /\ name = z.Name
            THEN return(<<>>, FALSE, "invalid CNAME at apex")
        ELSE IF count("CNAME") > 0 /\ Len(sets) > 1
            THEN return(<<>>, FALSE, "a CNAME set must be stand-alone")
        ELSE IF count("CNAME") > 0 /\ FollowsCNAME(needle)
            THEN IF InZone(z.Name, sets[1].Records[1].Address)
                 THEN [done |-> FALSE, name |-> sets[1].Records[1].Address,
                       res |-> chased, exists |-> FALSE, err |-> NoErr]
                 ELSE return(chased, FALSE, NoErr)
        ELSE IF Len(found) = 0 THEN return(<<>>, TRUE, NoErr)
        ELSE return(found, FALSE, NoErr)

LookupPass(z, h, name, i, res, needle) ==
    lookupChecks(z, h, [k \in 1..Len(h.sets) |-> SetValidate(h.sets[k])],
                 name, i, res, needle)

(***************************************************************************)
(* Messages.                                                               *)
(***************************************************************************)
\* Config.BufferSize after NewServer
BufferSize == 1220
\* the UDP payload limit of a request without OPT
PlainUDPSize == 512

\* Msg.SetEdns0(size, false)
OptRR(size) == [Name |-> <<".">>, Rrtype |-> "OPT", UDPSize |-> size]

\* a slip: the minimum taken from the TTL of the SOA record
SOARecord_SOATTL(z) ==
    [Name |-> z.Name, Rrtype |-> "SOA", Ttl |-> durationToTime(z.SOATTL),
     Ns |-> z.MasterNameServer, Mbox |-> emailToDomain(z.AdminEmail), Serial |-> 1,
     Refresh |-> durationToTime(z.Refresh), Retry |-> durationToTime(z.Retry),
     Expire |-> durationToTime(z.Expire), Minttl |-> durationToTime(z.SOATTL)]

SOARecord(z) ==
    [Name |-> z.Name, Rrtype |-> "SOA", Ttl |-> durationToTime(z.SOATTL),
     Ns |-> z.MasterNameServer, Mbox |-> emailToDomain(z.AdminEmail), Serial |-> 1,
     Refresh |-> durationToTime(z.Refresh), Retry |-> durationToTime(z.Retry),
     Expire |-> durationToTime(z.Expire), Minttl |-> durationToTime(z.MinTTL)]

\* the NS records of the zone, owned by owner
NSRecords(z, owner) ==
    [k \in 1..Len(z.AllNameServers) |->
        [Name |-> owner, Rrtype |-> "NS", Ttl |-> durationToTime(z.NSTTL),
         Ns |-> z.AllNameServers[k]]]

\* uint16(n): the low 16 bits of an int
Uint16(n) == n % 65536

\* a slip: the TTL of the set is taken as it is
convert_NoClamp(query, z, set) ==
    LET ttl == durationToTime(set.TTL)
        hdr == [Name |-> transferCase(query, set.Name), Rrtype |-> set.Type, Ttl |-> ttl]
        rr(r) == CASE set.Type = "A"     -> hdr @@ [A |-> r.Address]
                   [] set.Type = "AAAA"  -> hdr @@ [AAAA |-> r.Address]
                   [] set.Type = "CNAME" -> hdr @@ [Target |-> Fqdn(r.Address)]
                   [] set.Type = "MX"    -> hdr @@ [Preference |-> Uint16(r.Priority),
                                                    Mx |-> Fqdn(r.Address)]
                   [] set.Type = "TXT"   -> hdr @@ [Txt |-> r.Data]
    IN  IF TypeValid(set.Type) THEN [k \in 1..Len(set.Records) |-> rr(set.Records[k])]
        ELSE <<>>

\* Server.convert: the resource records of a set
convert(query, z, set) ==
    LET ttl == IF set.TTL < z.MinTTL THEN durationToTime(z.MinTTL)
               ELSE durationToTime(set.TTL)
        hdr == [Name |-> transferCase(query, set.Name), Rrtype |-> set.Type, Ttl |-> ttl]
        rr(r) == CASE set.Type = "A"     -> hdr @@ [A |-> r.Address]
                   [] set.Type = "AAAA"  -> hdr @@ [AAAA |-> r.Address]
                   [] set.Type = "CNAME" -> hdr @@ [Target |-> Fqdn(r.Address)]
                   [] set.Type = "MX"    -> hdr @@ [Preference |-> Uint16(r.Priority),
                                                    Mx |-> Fqdn(r.Address)]
                   [] set.Type = "TXT"   -> hdr @@ [Txt |-> r.Data]
    IN  IF TypeValid(set.Type) THEN [k \in 1..Len(set.Records) |-> rr(set.Records[k])]
        ELSE <<>>

RECURSIVE ConvertAll(_, _, _)
\* the records of a list of lookup results, in order
ConvertAll(query, z, res) ==
    IF res = <<>> THEN <<>>
    ELSE convert(query, z, Head(res).set) \o ConvertAll(query, z, Tail(res))

RECURSIVE SumLen(_)
SumLen(lens) == IF lens = <<>> THEN 0 ELSE Head(lens) + SumLen(Tail(lens))

\* the packed size of a name
NameLen(n) == Len(n) + 1

\* the packed size of a resource record
RRLen(rr) ==
    NameLen(rr.Name) + 10 +
    CASE rr.Rrtype = "A"     -> 4
      [] rr.Rrtype = "AAAA"  -> 16
      [] rr.Rrtype = "CNAME" -> NameLen(rr.Target)
      [] rr.Rrtype = "MX"    -> 2 + NameLen(rr.Mx)
      [] rr.Rrtype = "NS"    -> NameLen(rr.Ns)
      [] rr.Rrtype = "TXT"   -> SumLen([k \in 1..Len(rr.Txt) |-> 1 + rr.Txt[k].len])
      [] rr.Rrtype = "SOA"   -> NameLen(rr.Ns) + NameLen(rr.Mbox) + 20
      [] rr.Rrtype = "OPT"   -> 0

\* Msg.Len: header, question and the three sections
MsgLen(m) ==
    12 + NameLen(m.Question.Name) + 4
       + SumLen([k \in 1..Len(m.Answer) |-> RRLen(m.Answer[k])])
       + SumLen([k \in 1..Len(m.Ns) |-> RRLen(m.Ns[k])])
       + SumLen([k \in 1..Len(m.Extra) |-> RRLen(m.Extra[k])])

(***************************************************************************)
(* The state of one request.                                               *)
(***************************************************************************)
VARIABLES
    pc,        \* where the handler stands
    req,       \* the request message
    rs,        \* the reply under construction
    config,    \* what Config.Handler returns for the name of the request:
               \* "error", "nil" or "zone" ("none" before the request)
    resolved,  \* what Config.Handler returned: "none" yet, "error", "nil" or "zone"
    called,    \* the names Config.Handler has been called with, in order
    zone,      \* the zone Config.Handler returned, as Zone.Validate left it
    lk,        \* the frame of the running lookup: name, passes made, results, types
    ret,       \* what the last lookup returned
    idx,       \* the position of the answer loop that looks for MX targets
    hsets,     \* the results Zone.Handler has given so far, by relative name
    wire,      \* the messages handed to WriteMsg, in order, each with the
               \* message writeMessage was called with and the network
    events,    \* the events emitted to the logger, in order
    hdr,       \* the header of the message that arrived
    api,       \* the last call of a function of the library made on its own:
               \* the function, its arguments and what it returned
    srv,       \* the Server and a call of Run: the close channel, the errs
               \* channel, the two listeners and where Run stands
    par,       \* two requests validating one Zone value at the same time
    mux        \* two Servers of one process: the handler table of the wire
               \* library, where each Run stands, the query being served
               \* and the replies given

vars == <<api, mux, hdr, srv, par, pc, req, rs, config, resolved, called, zone, lk, ret, idx, hsets, wire, events>>

\* the requests: the messages the accept filter lets through
QNames == {ZoneName, NameC, NameMixed, ExtName}
QTypes == {"A", "AAAA", "CNAME", "MX", "TXT", "NS", "SOA", "ANY", "PTR"}
UDPSizes == {0, 512, 4096}
EdnsOptions ==
    {[Edns |-> FALSE, Version |-> 0, UDPSize |-> 0]}
    \cup {[Edns |-> TRUE, Version |-> 0, UDPSize |-> u] : u \in UDPSizes}
    \cup {[Edns |-> TRUE, Version |-> 1, UDPSize |-> 4096]}

\* no records in the answer, authority and additional sections of a request
NoPayload == [Answer |-> <<>>, Ns |-> <<>>, Extra |-> <<>>]

\* records in the three sections of a request for name n, none of which a
\* zone of the model holds
TestPayload(n) ==
    [Answer |-> <<[Name |-> n, Rrtype |-> "A", Ttl |-> 300, A |-> <<"9", ".", "9">>],
                  [Name |-> n, Rrtype |-> "AAAA", Ttl |-> 300, AAAA |-> <<"9", ":", ":">>]>>,
     Ns     |-> <<[Name |-> n, Rrtype |-> "NS", Ttl |-> 300, Ns |-> <<"p", ".", "x", ".">>]>>,
     Extra  |-> <<[Name |-> n, Rrtype |-> "TXT", Ttl |-> 300,
                   Txt |-> <<[text |-> <<"b", "a", "z">>, len |-> 3]>>]>>]

\* the payloads of the requests: a request without OPT record may carry the
\* test payload, and such a request also asks for recursion and has another
\* message ID
Payloads(n, e) ==
    {[Id |-> 1, RecursionDesired |-> FALSE] @@ NoPayload}
    \cup IF e.Edns THEN {}
         ELSE {[Id |-> 2, RecursionDesired |-> TRUE] @@ TestPayload(n)}

Requests ==
    UNION {{[Name |-> n, Qtype |-> t, Qclass |-> c,
             Edns |-> e.Edns, Version |-> e.Version, UDPSize |-> e.UDPSize,
             Id |-> p.Id, RecursionDesired |-> p.RecursionDesired,
             Answer |-> p.Answer, Ns |-> p.Ns, Extra |-> p.Extra] :
                t \in QTypes, c \in {"IN", "CH"}, p \in Payloads(n, e)} :
           n \in QNames, e \in EdnsOptions}

\* the opcodes of the messages that arrive
OpcodeQuery == 0
OpcodeNotify == 4

\* the header fields of the message of request r, and its section counts; the
\* OPT record of a request is a record of its additional section
HeadOf(r) ==
    [Response |-> FALSE, Opcode |-> OpcodeQuery,
     RecursionDesired |-> r.RecursionDesired,
     Qdcount |-> 1, Ancount |-> Len(r.Answer), Nscount |-> Len(r.Ns),
     Arcount |-> Len(r.Extra) + IF r.Edns THEN 1 ELSE 0]

\* the messages that arrive, by their heads: the requests, and the same
\* messages sent as a response, with another opcode, without a question or
\* with two questions
Heads ==
    UNION {{[HeadOf(r) EXCEPT !.Response = qr, !.Opcode = op, !.Qdcount = qd] :
                qr \in BOOLEAN, op \in {OpcodeQuery, OpcodeNotify}, qd \in 0..2} :
           r \in Requests}

\* the wire header of a message (dns.Header): QR is bit 15 of Bits, the
\* opcode bits 11 to 14, RD bit 8
Pack(h) ==
    [Bits |-> ((IF h.Response THEN 32768 ELSE 0) + h.Opcode * 2048
               + (IF h.RecursionDesired THEN 256 ELSE 0)) % 65536,
     Qdcount |-> h.Qdcount, Ancount |-> h.Ancount, Nscount |-> h.Nscount,
     Arcount |-> h.Arcount]

\* a slip: the number of questions is not checked
accept_AnyCount(dh) ==
    IF (dh.Bits \div 32768) % 2 # 0 THEN "MsgIgnore"
    ELSE IF (dh.Bits \div 2048) % 16 # OpcodeQuery THEN "MsgIgnore"
    ELSE "MsgAccept"

\* Server.accept
accept(dh) ==
    IF (dh.Bits \div 32768) % 2 # 0 THEN "MsgIgnore"
    ELSE IF (dh.Bits \div 2048) % 16 # OpcodeQuery THEN "MsgIgnore"
    ELSE IF dh.Qdcount # 1 THEN "MsgIgnore"
    ELSE "MsgAccept"

\* the networks a request can arrive on (ResponseWriter.RemoteAddr().Network())
Networks == {"udp", "tcp"}

\* every name a lookup can be asked for, and the relative names the handler sees
FetchNames == {ToLower(n) : n \in QNames} \cup {CnameTargets[k] : k \in 1..Len(CnameTargets)}
HandlerKeys == {TrimZone(ZoneName, n) : n \in FetchNames}

\* zero values
NoRequest ==
    [Name |-> <<>>, Qtype |-> "", Qclass |-> "",
     Edns |-> FALSE, Version |-> 0, UDPSize |-> 0,
     Id |-> 0, RecursionDesired |-> FALSE, Answer |-> <<>>, Ns |-> <<>>, Extra |-> <<>>]
NoMessage ==
    [Id |-> 0, Question |-> [Name |-> <<>>, Qtype |-> "", Qclass |-> ""],
     Response |-> FALSE, Authoritative |-> FALSE, Truncated |-> FALSE,
     RecursionDesired |-> FALSE, RecursionAvailable |-> FALSE,
     Rcode |-> "NOERROR", Answer |-> <<>>, Ns |-> <<>>, Extra |-> <<>>]
NoZone ==
    [Name |-> <<>>, MasterNameServer |-> <<>>, AllNameServers |-> <<>>,
     AdminEmail |-> <<>>,
     Refresh |-> 0, Retry |-> 0, Expire |-> 0, SOATTL |-> 0, NSTTL |-> 0, MinTTL |-> 0]
NoLookup == [name |-> <<>>, i |-> 0, turn |-> 0, res |-> <<>>, needle |-> {}]
NoReturn == [res |-> <<>>, exists |-> FALSE, err |-> NoErr]

\* NewServer: the close channel is open; Run has not been called
NewServer ==
    [close |-> "open", errs |-> <<>>, udp |-> "idle", tcp |-> "idle",
     run |-> "idle", err |-> NoErr, closes |-> 0, panics |-> 0]

\* a Zone value fresh from its literal, and two requests that have not yet
\* called Zone.Validate on it
NewZoneUse ==
    [ns |-> TestZone.AllNameServers,
     at |-> [p \in 1..2 |-> "idle"],
     x  |-> [p \in 1..2 |-> <<>>],
     out |-> [p \in 1..2 |-> <<>>]]

\* no message has arrived
NoHeader ==
    [Response |-> FALSE, Opcode |-> 0, RecursionDesired |-> FALSE,
     Qdcount |-> 0, Ancount |-> 0, Nscount |-> 0, Arcount |-> 0]

\* no call has been made
NoCall == [fn |-> "none", at |-> "none", args |-> <<>>, out |-> <<>>, again |-> <<>>]

\* NewServer: a buffer size that is not positive becomes 1220
NewBufferSize(size) == IF size <= 0 THEN BufferSize ELSE size

\* the configurations of two Servers of one process, after NewServer: each
\* has a Handler of its own, the first the default buffer size
ServerConfigs ==
    <<[BufferSize |-> NewBufferSize(0), Handler |-> 1],
      [BufferSize |-> NewBufferSize(4096), Handler |-> 2]>>

Servers == 1..2

\* no handler is registered for the pattern ".", no Server runs, no query
NoQuery == [at |-> 0, edns |-> FALSE]
NewProcess ==
    [handle |-> 0, run |-> [i \in Servers |-> "new"], query |-> NoQuery, replies |-> <<>>]

Init ==
    /\ mux = NewProcess
    /\ api = NoCall
    /\ hdr = NoHeader
    /\ srv = NewServer
    /\ par = NewZoneUse
    /\ pc = "idle"
    /\ req = NoRequest
    /\ rs = NoMessage
    /\ config = "none"
    /\ resolved = "none"
    /\ called = <<>>
    /\ zone = NoZone
    /\ lk = NoLookup
    /\ ret = NoReturn
    /\ idx = 0
    /\ hsets = [k \in HandlerKeys |-> 0]
    /\ wire = <<>>
    /\ events = <<>>

Ev(e) == [e |-> e, err |-> NoErr]
\* a slip: the event without its error
ErrEv_Bare(err) == [e |-> "BackendError", err |-> NoErr]

ErrEv(err) == [e |-> "BackendError", err |-> err]

\* a slip: the name of the question as it was asked
QName_AsAsked == req.Name

\* the lower-cased name of the question
QName == ToLower(req.Name)

\* a slip: the reply does not take over the recursion desired flag
BaseReply_NoRD(rq) ==
    [Id |-> rq.Id,
     Question |-> [Name |-> rq.Name, Qtype |-> rq.Qtype, Qclass |-> rq.Qclass],
     Response |-> TRUE, Authoritative |-> TRUE, Truncated |-> FALSE,
     RecursionDesired |-> FALSE, RecursionAvailable |-> FALSE,
     Rcode |-> "NOERROR", Answer |-> <<>>, Ns |-> <<>>,
     Extra |-> IF rq.Edns THEN <<OptRR(BufferSize)>> ELSE <<>>]

\* Msg.SetReply (the ID, the question and the recursion desired flag of the
\* request, Response set, the other flags clear), compression, the
\* authoritative flag and the OPT record
BaseReply(rq) ==
    [Id |-> rq.Id,
     Question |-> [Name |-> rq.Name, Qtype |-> rq.Qtype, Qclass |-> rq.Qclass],
     Response |-> TRUE, Authoritative |-> TRUE, Truncated |-> FALSE,
     RecursionDesired |-> rq.RecursionDesired, RecursionAvailable |-> FALSE,
     Rcode |-> "NOERROR", Answer |-> <<>>, Ns |-> <<>>,
     Extra |-> IF rq.Edns THEN <<OptRR(BufferSize)>> ELSE <<>>]

\* Server.writeError, up to its call of writeMessage
ErrorReply(m, withZone, z, code) ==
    [m EXCEPT !.Rcode = code,
              !.Ns = IF withZone THEN Append(m.Ns, SOARecord(z)) ELSE m.Ns]

\* a slip: the length is checked on every network
WriteMessage_AnyNet(rq, m, net, ok) ==
    LET buffer == IF rq.Edns THEN rq.UDPSize ELSE PlainUDPSize
    IN  IF MsgLen(m) > buffer
        THEN [msg |-> [m EXCEPT !.Truncated = TRUE, !.Answer = <<>>, !.Ns = <<>>,
                                !.Extra = <<>>, !.Rcode = "NOERROR"],
              events |-> <<Ev("Response")>>]
        ELSE IF ~ok THEN [msg |-> m, events |-> <<Ev("NetworkError")>>]
        ELSE [msg |-> m, events |-> <<Ev("Response")>>]

\* Server.writeMessage: the message given to WriteMsg and the events logged;
\* net is the network of the connection, ok tells whether WriteMsg succeeds
WriteMessage(rq, m, net, ok) ==
    LET buffer == IF rq.Edns THEN rq.UDPSize ELSE PlainUDPSize
        isUDP  == net = "udp"
    IN  IF isUDP /\ MsgLen(m) > buffer
        THEN [msg |-> [m EXCEPT !.Truncated = TRUE, !.Answer = <<>>, !.Ns = <<>>,
                                !.Extra = <<>>, !.Rcode = "NOERROR"],
              events |-> <<Ev("Response")>>]
        ELSE IF ~ok THEN [msg |-> m, events |-> <<Ev("NetworkError")>>]
        ELSE [msg |-> m, events |-> <<Ev("Response")>>]

\* a slip: the message is written and, the handler not returning, written again
Reply_Twice(pre, m, ok) ==
    \E net \in Networks :
        LET w == WriteMessage(req, m, net, ok)
        IN  /\ rs' = w.msg
            /\ wire' = wire \o <<[msg |-> w.msg, full |-> m, net |-> net, ok |-> ok],
                                  [msg |-> w.msg, full |-> m, net |-> net, ok |-> ok]>>
            /\ events' = events \o pre \o w.events \o <<Ev("Finish")>>
            /\ pc' = "done"

\* the handler logs pre, writes m and returns
Reply(pre, m, ok) ==
    \E net \in Networks :
        LET w == WriteMessage(req, m, net, ok)
        IN  /\ rs' = w.msg
            /\ wire' = Append(wire, [msg |-> w.msg, full |-> m, net |-> net, ok |-> ok])
            /\ events' = events \o pre \o w.events \o <<Ev("Finish")>>
            /\ pc' = "done"

BadVersion == req.Edns /\ req.Version # 0

\* the handler is past the EDNS and ANY checks and calls Config.Handler
Resolving == pc = "handler" /\ ~BadVersion /\ req.Qtype # "ANY"

\* Config.Handler returns z, the zone of the queried name
Resolves(z) == Resolving /\ config = "zone" /\ InZone(z.Name, QName)

(***************************************************************************)
(* Server.handler.                                                         *)
(***************************************************************************)
\* a message arrives and the accept filter lets it through: the server
\* unpacks it and calls the handler
Accept ==
    /\ pc = "idle"
    /\ \E h \in Heads :
        /\ accept(Pack(h)) = "MsgAccept"
        /\ hdr' = h
    /\ pc' = "accepted"
    /\ UNCHANGED <<api, mux, srv, par, config, req, rs, resolved, called, zone, lk, ret, idx, hsets, wire, events>>

\* a message arrives and the accept filter ignores it: the handler is not
\* called and nothing is written
Drop ==
    /\ pc = "idle"
    /\ \E h \in Heads :
        /\ accept(Pack(h)) = "MsgIgnore"
        /\ hdr' = h
    /\ events' = <<Ev("Ignored")>>
    /\ pc' = "done"
    /\ UNCHANGED <<api, mux, srv, par, config, req, rs, resolved, called, zone, lk, ret, idx, hsets, wire>>

\* a slip: the class is checked after the request has been logged
Ignore_Logged ==
    /\ pc = "accepted"
    /\ \E r \in Requests :
        /\ HeadOf(r) = hdr
        /\ r.Qclass # "IN"
        /\ req' = r
    /\ events' = <<Ev("Request"), Ev("Ignored"), Ev("Finish")>>
    /\ pc' = "done"
    /\ UNCHANGED <<api, mux, hdr, srv, par, config, rs, resolved, called, zone, lk, ret, idx, hsets, wire>>

\* a question of another class than IN: the request is dropped
Ignore ==
    /\ pc = "accepted"
    /\ \E r \in Requests :
        /\ HeadOf(r) = hdr
        /\ r.Qclass # "IN"
        /\ req' = r
    /\ events' = <<Ev("Ignored")>>
    /\ pc' = "done"
    /\ UNCHANGED <<api, mux, hdr, srv, par, config, rs, resolved, called, zone, lk, ret, idx, hsets, wire>>

\* what Config.Handler may return for a name: an error, no zone, or, for a
\* name of a zone, that zone
Backends(name) ==
    {"error", "nil"} \cup
    IF \E z \in Zones : InZone(z.Name, name) THEN {"zone"} ELSE {}

\* an accepted request: the reply is prepared
Request ==
    /\ pc = "accepted"
    /\ \E r \in Requests :
        /\ HeadOf(r) = hdr
        /\ r.Qclass = "IN"
        /\ req' = r
        /\ rs' = BaseReply(r)
        /\ config' \in Backends(ToLower(r.Name))
    /\ events' = <<Ev("Request")>>
    /\ pc' = "handler"
    /\ UNCHANGED <<api, mux, hdr, srv, par, resolved, called, zone, lk, ret, idx, hsets, wire>>

BadVers ==
    /\ pc = "handler"
    /\ BadVersion
    /\ \E ok \in BOOLEAN :
        Reply(<<Ev("Refused")>>, ErrorReply(rs, FALSE, zone, "BADVERS"), ok)
    /\ UNCHANGED <<api, mux, hdr, srv, par, config, req, resolved, called, zone, lk, ret, idx, hsets>>

AnyType ==
    /\ pc = "handler"
    /\ ~BadVersion
    /\ req.Qtype = "ANY"
    /\ \E ok \in BOOLEAN :
        Reply(<<Ev("Refused")>>, ErrorReply(rs, FALSE, zone, "NOTIMP"), ok)
    /\ UNCHANGED <<api, mux, hdr, srv, par, config, req, resolved, called, zone, lk, ret, idx, hsets>>

\* Config.Handler fails
ResolverError ==
    /\ Resolving
    /\ config = "error"
    /\ resolved' = "error"
    /\ called' = Append(called, QName)
    /\ \E ok \in BOOLEAN :
        Reply(<<ErrEv("resolver error")>>, ErrorReply(rs, FALSE, zone, "SERVFAIL"), ok)
    /\ UNCHANGED <<api, mux, hdr, srv, par, config, req, zone, lk, ret, idx, hsets>>

\* Config.Handler knows no zone for the name
Refuse ==
    /\ Resolving
    /\ config = "nil"
    /\ resolved' = "nil"
    /\ called' = Append(called, QName)
    /\ \E ok \in BOOLEAN :
        Reply(<<Ev("Refused")>>,
              ErrorReply([rs EXCEPT !.Authoritative = FALSE], FALSE, zone, "REFUSED"), ok)
    /\ UNCHANGED <<api, mux, hdr, srv, par, config, req, zone, lk, ret, idx, hsets>>

\* Config.Handler returns a zone that Zone.Validate rejects
InvalidZone ==
    /\ \E z \in Zones :
        LET v == ZoneValidate(z)
        IN  /\ Resolves(z)
            /\ v.err # NoErr
            /\ resolved' = "zone"
            /\ called' = Append(called, QName)
            /\ zone' = v.zone
            /\ \E ok \in BOOLEAN :
                Reply(<<ErrEv(v.err)>>, ErrorReply(rs, FALSE, v.zone, "SERVFAIL"), ok)
    /\ UNCHANGED <<api, mux, hdr, srv, par, config, req, lk, ret, idx, hsets>>

\* the handler has a valid zone z
Validated(z) == Resolves(z) /\ ZoneValidate(z).err = NoErr

SOAResponse ==
    \E z \in Zones :
        LET v == ZoneValidate(z).zone
        IN  /\ Validated(z)
            /\ req.Qtype = "SOA" /\ QName = v.Name
            /\ resolved' = "zone"
            /\ called' = Append(called, QName)
            /\ zone' = v
            /\ \E ok \in BOOLEAN :
                Reply(<<>>, [rs EXCEPT !.Answer = Append(rs.Answer, SOARecord(v)),
                                       !.Ns = rs.Ns \o NSRecords(v, v.Name)], ok)
            /\ UNCHANGED <<api, mux, hdr, srv, par, config, req, lk, ret, idx, hsets>>

NSResponse ==
    \E z \in Zones :
        LET v == ZoneValidate(z).zone
        IN  /\ Validated(z)
            /\ ~(req.Qtype = "SOA" /\ QName = v.Name)
            /\ req.Qtype = "NS" /\ QName = v.Name
            /\ resolved' = "zone"
            /\ called' = Append(called, QName)
            /\ zone' = v
            /\ \E ok \in BOOLEAN :
                Reply(<<>>, [rs EXCEPT !.Answer = rs.Answer \o NSRecords(v, v.Name)], ok)
            /\ UNCHANGED <<api, mux, hdr, srv, par, config, req, lk, ret, idx, hsets>>

\* neither apex shortcut applies
General(v) ==
    /\ ~(req.Qtype = "SOA" /\ QName = v.Name)
    /\ ~(req.Qtype = "NS" /\ QName = v.Name)

UnsupportedType ==
    \E z \in Zones :
        LET v == ZoneValidate(z).zone
        IN  /\ Validated(z)
            /\ General(v)
            /\ ~TypeValid(req.Qtype)
            /\ resolved' = "zone"
            /\ called' = Append(called, QName)
            /\ zone' = v
            /\ \E ok \in BOOLEAN :
                Reply(<<Ev("Refused")>>, ErrorReply(rs, TRUE, v, "NXDOMAIN"), ok)
            /\ UNCHANGED <<api, mux, hdr, srv, par, config, req, lk, ret, idx, hsets>>

\* the main lookup starts
StartLookup ==
    \E z \in Zones :
        LET v == ZoneValidate(z).zone
        IN  /\ Validated(z)
            /\ General(v)
            /\ TypeValid(req.Qtype)
            /\ resolved' = "zone"
            /\ called' = Append(called, QName)
            /\ zone' = v
            /\ lk' = [name |-> QName, i |-> 0, turn |-> 0, res |-> <<>>, needle |-> {req.Qtype}]
            /\ pc' = "lookup"
            /\ UNCHANGED <<api, mux, hdr, srv, par, config, req, rs, ret, idx, hsets, wire, events>>

\* one pass of the loop of Server.lookup, for the main lookup or a glue lookup:
\* Zone.Handler is called for the current name and answers as it did before.
\* The loop has no bound: past MaxFetch passes the model stops counting them
\* and collecting their results, and keeps the parity of the passes in turn
Lookup ==
    /\ pc \in {"lookup", "glue"}
    /\ LET key == TrimZone(zone.Name, lk.name)
       IN  \E opt \in 1..NumResults :
            /\ hsets[key] \in {0, opt}
            /\ hsets' = [hsets EXCEPT ![key] = opt]
            /\ LET out   == LookupPass(zone, HandlerResult(key, opt),
                                       lk.name, lk.i, lk.res, lk.needle)
                   count == IF lk.i < MaxFetch THEN lk.i + 1 ELSE lk.i
                   turn  == 1 - lk.turn
                   res   == IF lk.i < MaxFetch THEN out.res ELSE lk.res
               IN  IF out.done
                   THEN /\ ret' = [res |-> out.res, exists |-> out.exists, err |-> out.err]
                        /\ lk' = [lk EXCEPT !.i = count, !.turn = turn]
                        /\ pc' = IF pc = "lookup" THEN "result" ELSE "glueresult"
                   ELSE /\ lk' = [lk EXCEPT !.name = out.name, !.res = res, !.i = count,
                                           !.turn = turn]
                        /\ UNCHANGED <<ret, pc>>
    /\ UNCHANGED <<api, mux, hdr, srv, par, config, req, rs, resolved, called, zone, idx, wire, events>>

\* the main lookup failed
LookupError ==
    /\ pc = "result"
    /\ ret.err # NoErr
    /\ \E ok \in BOOLEAN :
        Reply(<<ErrEv(ret.err)>>, ErrorReply(rs, FALSE, zone, "SERVFAIL"), ok)
    /\ UNCHANGED <<api, mux, hdr, srv, par, config, req, resolved, called, zone, lk, ret, idx, hsets>>

\* a slip: the two codes the other way round
MissingCode_Swapped(exists) == IF exists THEN "NXDOMAIN" ELSE "NOERROR"

\* the code of a reply without answer: success if the name has other sets
MissingCode(exists) == IF exists THEN "NOERROR" ELSE "NXDOMAIN"

\* the main lookup found nothing: NODATA if the name has other sets, else NXDOMAIN
Missing ==
    /\ pc = "result"
    /\ ret.err = NoErr
    /\ Len(ret.res) = 0
    /\ \E ok \in BOOLEAN :
        Reply(<<>>, ErrorReply(rs, TRUE, zone, MissingCode(ret.exists)), ok)
    /\ UNCHANGED <<api, mux, hdr, srv, par, config, req, resolved, called, zone, lk, ret, idx, hsets>>

\* the main lookup found sets: they become the answer
Answer ==
    /\ pc = "result"
    /\ ret.err = NoErr
    /\ Len(ret.res) > 0
    /\ rs' = [rs EXCEPT !.Answer = rs.Answer \o ConvertAll(req.Name, zone, ret.res)]
    /\ idx' = 1
    /\ pc' = "answers"
    /\ UNCHANGED <<api, mux, hdr, srv, par, config, req, resolved, called, zone, lk, ret, hsets, wire, events>>

\* the answer at idx is an MX record whose target lies in the zone
NeedsGlue(k) ==
    /\ rs.Answer[k].Rrtype = "MX"
    /\ InZone(zone.Name, rs.Answer[k].Mx)

\* the answer loop passes a record that needs no glue
SkipAnswer ==
    /\ pc = "answers"
    /\ idx <= Len(rs.Answer)
    /\ ~NeedsGlue(idx)
    /\ idx' = idx + 1
    /\ UNCHANGED <<api, mux, hdr, srv, par, config, pc, req, rs, resolved, called, zone, lk, ret, hsets, wire, events>>

\* the answer loop looks up the A and AAAA sets of an MX target
StartGlue ==
    /\ pc = "answers"
    /\ idx <= Len(rs.Answer)
    /\ NeedsGlue(idx)
    /\ lk' = [name |-> rs.Answer[idx].Mx, i |-> 0, turn |-> 0, res |-> <<>>,
              needle |-> {"A", "AAAA"}]
    /\ pc' = "glue"
    /\ UNCHANGED <<api, mux, hdr, srv, par, config, req, rs, resolved, called, zone, ret, idx, hsets, wire, events>>

\* a glue lookup failed
GlueError ==
    /\ pc = "glueresult"
    /\ ret.err # NoErr
    /\ \E ok \in BOOLEAN :
        Reply(<<ErrEv(ret.err)>>, ErrorReply(rs, FALSE, zone, "SERVFAIL"), ok)
    /\ UNCHANGED <<api, mux, hdr, srv, par, config, req, resolved, called, zone, lk, ret, idx, hsets>>

\* a glue lookup returned: its sets go to the additional section
AddGlue ==
    /\ pc = "glueresult"
    /\ ret.err = NoErr
    /\ rs' = [rs EXCEPT !.Extra = rs.Extra \o ConvertAll(req.Name, zone, ret.res)]
    /\ idx' = idx + 1
    /\ pc' = "answers"
    /\ UNCHANGED <<api, mux, hdr, srv, par, config, req, resolved, called, zone, lk, ret, hsets, wire, events>>

\* the answer loop is over: the NS records are added and the reply is written
Respond ==
    /\ pc = "answers"
    /\ idx > Len(rs.Answer)
    /\ \E ok \in BOOLEAN :
        Reply(<<>>, [rs EXCEPT !.Ns = rs.Ns \o NSRecords(zone, transferCase(req.Name, zone.Name))],
              ok)
    /\ UNCHANGED <<api, mux, hdr, srv, par, config, req, resolved, called, zone, lk, ret, idx, hsets>>

Next ==
    \/ Accept \/ Drop \/ Ignore \/ Request \/ BadVers \/ AnyType \/ ResolverError \/ Refuse
    \/ InvalidZone \/ SOAResponse \/ NSResponse \/ UnsupportedType \/ StartLookup
    \/ Lookup \/ LookupError \/ Missing \/ Answer
    \/ SkipAnswer \/ StartGlue \/ GlueError \/ AddGlue \/ Respond

Spec == Init /\ [][Next]_vars

\* a request is being handled
Running == pc \notin {"idle", "done"}

\* the checks at the start of the handler
FirstChecks == BadVers \/ AnyType \/ ResolverError \/ Refuse

\* The goroutine of a handler is scheduled: a handler that is running takes
\* its next step.  A running handler always has a next step, so that weak
\* fairness of its steps is: again and again, no handler is running or a
\* step is taken.
FairSpec ==
    /\ Spec
    /\ WF_vars(FirstChecks)
    /\ ([]<>(~Running) \/ []<><<Next>>_vars)

(***************************************************************************)
(* Server.Run and Server.Close.  A listener is "idle" before Run, "spawned"*)
(* once its goroutine exists, "serving" when ListenAndServe has started,   *)
(* "failed" when ListenAndServe has returned an error, "stopped" when      *)
(* Shutdown has stopped it and "ended" when ListenAndServe has returned.   *)
(* Shutdown of a listener that has not started does nothing.               *)
(***************************************************************************)
\* the state of a request, which Run and Close leave alone
hvars == <<api, mux, hdr, par, pc, req, rs, config, resolved, called, zone, lk, ret, idx, hsets, wire, events>>

Listeners == {"udp", "tcp"}

\* Run: both listener goroutines are spawned and Run waits in its select
Run ==
    /\ srv.run = "idle"
    /\ srv' = [srv EXCEPT !.udp = "spawned", !.tcp = "spawned", !.run = "await"]
    /\ UNCHANGED hvars

\* ListenAndServe of a listener starts to serve
Listen(n) ==
    /\ srv[n] = "spawned"
    /\ srv' = [srv EXCEPT ![n] = "serving"]
    /\ UNCHANGED hvars

\* ListenAndServe of a listener returns an error, which goes to errs
ListenFails(n) ==
    /\ srv[n] \in {"spawned", "serving"}
    /\ srv' = [srv EXCEPT ![n] = "failed", !.errs = Append(srv.errs, "listen error")]
    /\ UNCHANGED hvars

\* ListenAndServe of a listener that was shut down returns nil, which goes to errs
ListenReturns(n) ==
    /\ srv[n] = "stopped"
    /\ srv' = [srv EXCEPT ![n] = "ended", !.errs = Append(srv.errs, NoErr)]
    /\ UNCHANGED hvars

\* the select of Run receives from errs
AwaitError ==
    /\ srv.run = "await"
    /\ srv.errs # <<>>
    /\ srv' = [srv EXCEPT !.err = Head(srv.errs), !.errs = Tail(srv.errs),
                          !.run = "shutdown"]
    /\ UNCHANGED hvars

\* the select of Run finds the close channel closed
AwaitClose ==
    /\ srv.run = "await"
    /\ srv.close = "closed"
    /\ srv' = [srv EXCEPT !.run = "shutdown"]
    /\ UNCHANGED hvars

\* Server.Shutdown of the wire library: it stops a listener that serves
Shutdown(state) == IF state = "serving" THEN "stopped" ELSE state

\* Run shuts down the UDP listener
ShutdownUDP ==
    /\ srv.run = "shutdown"
    /\ srv' = [srv EXCEPT !.udp = Shutdown(srv.udp), !.run = "shutdown tcp"]
    /\ UNCHANGED hvars

\* Run shuts down the TCP listener and returns
ShutdownTCP ==
    /\ srv.run = "shutdown tcp"
    /\ srv' = [srv EXCEPT !.tcp = Shutdown(srv.tcp), !.run = "returned"]
    /\ UNCHANGED hvars

\* Close: close(s.close), which panics on a channel that is closed already
Close ==
    /\ srv.closes < MaxClose
    /\ srv' = [srv EXCEPT !.closes = srv.closes + 1,
                          !.close = "closed",
                          !.panics = IF srv.close = "closed" THEN srv.panics + 1
                                     ELSE srv.panics]
    /\ UNCHANGED hvars

RunNext ==
    \/ Run \/ AwaitError \/ AwaitClose \/ ShutdownUDP \/ ShutdownTCP \/ Close
    \/ \E n \in Listeners : Listen(n) \/ ListenFails(n) \/ ListenReturns(n)

RunSpec == Init /\ [][RunNext]_vars

(***************************************************************************)
(* Two requests for one zone, handled by two goroutines.  Config.Handler   *)
(* hands both the same Zone value, and Zone.Validate sorts its name        *)
(* servers in place, without a lock: every read and write of an element is *)
(* a step of its own.  The list has two elements, so that the sort is one  *)
(* comparison and at most one swap.                                        *)
(***************************************************************************)
\* the state of the server and of the single request
svars == <<api, mux, hdr, srv, pc, req, rs, config, resolved, called, zone, lk, ret, idx, hsets, wire, events>>

Procs == 1..2

\* sort.Strings: less(data[1], data[0])
SortLess(p) ==
    /\ par.at[p] = "idle"
    /\ par' = [par EXCEPT !.at[p] = IF StrLess(par.ns[2], par.ns[1]) THEN "swap"
                                    ELSE "sorted"]
    /\ UNCHANGED svars

\* sort.Strings: the swap reads both elements
SwapRead(p) ==
    /\ par.at[p] = "swap"
    /\ par' = [par EXCEPT !.x[p] = par.ns, !.at[p] = "write j"]
    /\ UNCHANGED svars

\* sort.Strings: the swap writes data[j]
SwapWriteJ(p) ==
    /\ par.at[p] = "write j"
    /\ par' = [par EXCEPT !.ns[2] = par.x[p][1], !.at[p] = "write i"]
    /\ UNCHANGED svars

\* sort.Strings: the swap writes data[j-1]
SwapWriteI(p) ==
    /\ par.at[p] = "write i"
    /\ par' = [par EXCEPT !.ns[1] = par.x[p][2], !.at[p] = "sorted"]
    /\ UNCHANGED svars

\* the handler adds the NS record of the next name server to its reply
AddNS(p) ==
    /\ par.at[p] = "sorted"
    /\ par' = [par EXCEPT !.out[p] = Append(par.out[p], par.ns[Len(par.out[p]) + 1]),
                          !.at[p] = IF Len(par.out[p]) + 1 = Len(par.ns) THEN "done"
                                    ELSE "sorted"]
    /\ UNCHANGED svars

ParNext == \E p \in Procs : SortLess(p) \/ SwapRead(p) \/ SwapWriteJ(p) \/ SwapWriteI(p) \/ AddNS(p)

ParSpec == Init /\ [][ParNext]_vars

(***************************************************************************)
(* Two Servers in one process.  Run registers the handler of its Server    *)
(* for the pattern "." with dns.HandleFunc, that is in the handler table   *)
(* of the process, where it replaces the handler registered before; the    *)
(* listeners of Run have no handler of their own and serve every message   *)
(* they accept through that table.  The handler reads the Config of the    *)
(* Server it is a method of.                                               *)
(***************************************************************************)
mvars == <<api, hdr, srv, par, pc, req, rs, config, resolved, called, zone, lk, ret, idx, hsets, wire, events>>

\* the queries served in one run of the process
MaxQueries == 2

\* Run of Server i registers its handler for "."
Register(i) ==
    /\ mux.run[i] = "new"
    /\ mux' = [mux EXCEPT !.handle = i, !.run[i] = "registered"]
    /\ UNCHANGED mvars

\* the listeners of Server i serve
Serve(i) ==
    /\ mux.run[i] = "registered"
    /\ mux' = [mux EXCEPT !.run[i] = "serving"]
    /\ UNCHANGED mvars

\* a query, with or without an OPT record, arrives at a listener of Server i
\* and passes its accept filter
Arrive(i) ==
    /\ mux.run[i] = "serving"
    /\ mux.query = NoQuery
    /\ Len(mux.replies) < MaxQueries
    /\ \E e \in BOOLEAN : mux' = [mux EXCEPT !.query = [at |-> i, edns |-> e]]
    /\ UNCHANGED mvars

\* the listener hands the query to the handler registered for ".", which
\* calls the Handler and advertises the BufferSize of its own Server
Dispatch ==
    /\ mux.query # NoQuery
    /\ LET c == ServerConfigs[mux.handle]
           reply == [at |-> mux.query.at, edns |-> mux.query.edns, by |-> c.Handler,
                     size |-> IF mux.query.edns THEN c.BufferSize ELSE 0]
       IN  mux' = [mux EXCEPT !.query = NoQuery, !.replies = Append(@, reply)]
    /\ UNCHANGED mvars

\* Server i is closed: Run shuts its listeners down and returns; the handler
\* table stays as it is
CloseServer(i) ==
    /\ mux.run[i] = "serving"
    /\ mux.query.at # i
    /\ mux' = [mux EXCEPT !.run[i] = "closed"]
    /\ UNCHANGED mvars

MuxNext == Dispatch \/ \E i \in Servers : Register(i) \/ Serve(i) \/ Arrive(i) \/ CloseServer(i)

MuxSpec == Init /\ [][MuxNext]_vars

(***************************************************************************)
(* Calls of the library's functions made on their own, as the tests and a  *)
(* host program make them.  Each call is one step: api holds the function, *)
(* its arguments and what it returned.                                     *)
(***************************************************************************)
avars == <<mux, hdr, srv, par, pc, req, rs, config, resolved, called, zone, lk, ret, idx, hsets, wire, events>>

\* the zone of the calls, validated as the server validates it before a lookup
CallZone == ZoneValidate(TestZone).zone

\* a name that is not fully qualified
BareName == <<"f">>

\* the names looked up: the apex, a name of the zone, a name of another zone
\* and a name that is not fully qualified
CallNames == {ZoneName, NameC, ExtName, BareName}

\* the requested types of a lookup
CallNeedles == {{"A"}, {"CNAME"}, {"A", "AAAA"}, {"MX"}, {"TXT"}}

\* the names the handler of a call may give a set as owner: the name looked
\* up, another name of the zone, a name of another zone, a bare name
CallOwners(name) == {name, NameB, ExtName, BareName}

\* results whose records are not in order: an A set, an A set with the same
\* address twice, an MX set and a TXT set
UnsortedResults(o) ==
    <<[sets |-> <<MkSet(o, "A", <<Rec(<<"1", ".", "2">>), Rec(<<"1", ".", "1">>)>>, 0)>>,
       err |-> NoErr],
      [sets |-> <<MkSet(o, "A", <<Rec(<<"1", ".", "2">>), Rec(<<"1", ".", "1">>),
                                  Rec(<<"1", ".", "2">>)>>, 0)>>,
       err |-> NoErr],
      [sets |-> <<MkSet(o, "MX", <<MxRec(20, NameA), MxRec(30, NameB), MxRec(10, MailExt)>>, 0),
                  MkSet(o, "A", <<Rec(<<"1", ".", "2">>), Rec(<<"1", ".", "1">>)>>, 0)>>,
       err |-> NoErr],
      [sets |-> <<MkSet(o, "TXT", <<TxtRec(<<Txt1("b")>>), TxtRec(<<Txt1("a"), Txt1("c")>>),
                                    TxtRec(<<Txt1("a"), Txt1("b")>>)>>, 0)>>,
       err |-> NoErr]>>

NumCallResults == NumResults + Len(UnsortedResults(ZoneName))

\* the handlers of the calls, pure functions of the relative name: for the
\* name first the result o1 with sets owned by owner, for every other name
\* the result o2 with sets owned by the name asked for
CallHandlers(name) ==
    [first : {TrimZone(CallZone.Name, name)}, owner : CallOwners(name),
     o1 : 1..NumCallResults, o2 : 1..NumResults]

\* Zone.Handler of a call, before any lookup has run: the handler returns
\* the sets it holds
CallHandler(hd, key) ==
    IF key = hd.first
    THEN IF hd.o1 <= NumResults THEN OwnedResult(hd.owner, hd.o1)
         ELSE UnsortedResults(hd.owner)[hd.o1 - NumResults]
    ELSE HandlerResult(key, hd.o2)

\* Zone.Handler of a call after earlier passes have validated the sets it
\* holds for the names in seen
HeldResult(hd, seen, key) ==
    IF key \in seen THEN AfterPass(CallHandler(hd, key)) ELSE CallHandler(hd, key)

\* the call never returns
NoReturnValue ==
    [res |-> <<>>, exists |-> FALSE, err |-> "no return", fetched |-> 0, seen |-> {}]

RECURSIVE LookupRun(_, _, _, _, _, _, _)
\* Server.lookup from its pass i on to its return: the results, the exists
\* flag, the error, the number of calls of Zone.Handler and the relative
\* names it was called with.  seen are the names whose sets earlier passes,
\* of this call or an earlier one, have validated.  A pass at a name that an
\* earlier pass of the call has left repeats that pass for ever.
LookupRun(z, hd, seen, name, i, res, needle) ==
    LET key == TrimZone(z.Name, name)
        out == LookupPass(z, HeldResult(hd, seen, key), name, i, res, needle)
    IN  IF \E k \in 1..Len(res) : res[k].name = name THEN NoReturnValue
        ELSE IF out.done
            THEN [res |-> out.res, exists |-> out.exists, err |-> out.err,
                  fetched |-> i + 1, seen |-> seen \cup {key}]
        ELSE LookupRun(z, hd, seen \cup {key}, out.name, i + 1, out.res, needle)

\* a call of fn with arguments args that has not returned yet
Called(fn, args) ==
    [fn |-> fn, at |-> "called", args |-> args, out |-> <<>>, again |-> <<>>]

\* the calls of Server.lookup(zone, name, needle...)
LookupCalls ==
    UNION {{Called("lookup", [zone |-> CallZone, name |-> name, needle |-> needle,
                              handler |-> hd]) :
                needle \in CallNeedles, hd \in CallHandlers(name)} :
           name \in CallNames}

\* an address without "@", one with two and one whose domain has an empty
\* label
EmailNoAt == <<"a", "b">>
EmailTwoAt == <<"a", "@", "b", "@", "c">>
EmailEmptyLabel == <<"a", "@", "b", ".", ".", "c">>

\* the zones Zone.Validate is called with
CallZones ==
    [Name : {ZoneName, BareName},
     MasterNameServer : {NS1, BareName},
     AllNameServers : {<<>>, <<NS1>>, <<NS2, NS1>>, <<NS1, BareName>>},
     AdminEmail : {<<>>, TestZone.AdminEmail, EmailNoAt, EmailTwoAt, EmailEmptyLabel},
     Refresh : {0, 1, 2 * Hour, MaxInt},
     Retry : {0, 2, 15 * Minute, 6 * Hour, -Hour},
     Expire : {0, 1, 336 * Hour},
     SOATTL : {0}, NSTTL : {0, -1}, MinTTL : {0}]

\* the calls of Zone.Validate
ValidateCalls == {Called("Zone.Validate", [zone |-> z]) : z \in CallZones}

\* the sequences of one to three elements of a set
UpTo3(S) == UNION {[1..n -> S] : n \in 1..3}

\* the records Set.Validate is called with, by type: two addresses, three MX
\* records of which two share their address, and three TXT records of which
\* two share their first data element
CallRecords(typ) ==
    CASE typ = "A"   -> {Rec(<<"1", ".", "1">>), Rec(<<"1", ".", "2">>)}
      [] typ = "MX"  -> {MxRec(10, NameB), MxRec(20, NameA), MxRec(30, NameB)}
      [] typ = "TXT" -> {TxtRec(<<Txt1("a"), Txt1("b")>>), TxtRec(<<Txt1("a"), Txt1("c")>>),
                         TxtRec(<<Txt1("b")>>)}

\* the sets Set.Validate is called with: up to three records in any order,
\* and a set without records
CallSets ==
    UNION {{MkSet(NameC, typ, recs, ttl) : recs \in UpTo3(CallRecords(typ)), ttl \in {0, Minute}} :
           typ \in {"A", "MX", "TXT"}}
    \cup {MkSet(NameC, "A", <<>>, 0)}

\* the calls of Set.Validate
SetValidateCalls == {Called("Set.Validate", [set |-> set]) : set \in CallSets}

\* the strings transferCase is called with: names in both cases and names
\* that hold the zone name in front or twice
CallStrings ==
    {ZoneName, ApexUpper, NameA, <<"A", ".", "Z", ".">>, <<"z", ".", "b", ".">>,
     <<"Z", ".", "z", ".">>, <<"b", ".">>}

\* the calls of transferCase(source, destination)
TransferCalls ==
    {Called("transferCase", [source |-> a, destination |-> b]) :
        a \in CallStrings, b \in CallStrings}

\* a name that is not fully qualified
RelName == <<"a", ".", "z">>

\* the records Record.Validate is called with: no address, an IPv4 and an
\* IPv6 address, a fully qualified name and a relative one, each without
\* data, with data of 1, of 255 and of 256 bytes
CallRecordValues ==
    [Address : {<<>>, <<"1", ".", "1">>, <<"1", ":", ":">>, NameA, RelName},
     Priority : {0},
     Data : {<<>>, <<Txt1("a")>>, <<[text |-> <<"b">>, len |-> 255]>>,
             <<Txt1("a"), [text |-> <<"c">>, len |-> 256]>>}]

\* the calls of Record.Validate(typ)
RecordCalls ==
    {Called("Record.Validate", [typ |-> t, record |-> r]) :
        t \in {"A", "AAAA", "CNAME", "MX", "TXT"}, r \in CallRecordValues}

\* the zones and the names TrimZone is called with: with and without the
\* closing dot, in both cases, the root, names one and two labels below the
\* zone, a name of another zone, a name with an empty label and no name
TrimZones == {ZoneName, ApexUpper, <<"z">>, <<".">>, ExtName}
TrimNames ==
    {ZoneName, ApexUpper, <<"z">>, NameA, <<"A", ".", "Z", ".">>, RelName,
     <<"b", ".", "a", ".", "z", ".">>, ExtName, <<"a", ".", ".", "z", ".">>, <<>>}

\* the calls of TrimZone(zone, name)
TrimCalls ==
    {Called("TrimZone", [zone |-> z, name |-> n]) : z \in TrimZones, n \in TrimNames}

\* the host program calls a function
Call ==
    /\ api.fn = "none"
    /\ \/ api' \in LookupCalls
       \/ api' \in ValidateCalls
       \/ api' \in SetValidateCalls
       \/ api' \in TransferCalls
       \/ api' \in RecordCalls
       \/ api' \in TrimCalls
    /\ UNCHANGED avars

\* the call has returned out
Returned(out) == [api EXCEPT !.at = "returned", !.out = out]

\* Server.lookup runs, and returns unless it runs for ever
DoLookup ==
    /\ api.fn = "lookup"
    /\ api.at = "called"
    /\ LET out == LookupRun(api.args.zone, api.args.handler, {}, api.args.name,
                            0, <<>>, api.args.needle)
       IN  api' = IF out = NoReturnValue THEN [api EXCEPT !.at = "running"]
                  ELSE Returned(out)
    /\ UNCHANGED avars

\* Server.lookup is called once more with the same arguments; the handler
\* returns the sets it holds, as the first call has left them
DoLookupAgain ==
    /\ api.fn = "lookup"
    /\ api.at = "returned"
    /\ LET out == LookupRun(api.args.zone, api.args.handler, api.out.seen,
                            api.args.name, 0, <<>>, api.args.needle)
       IN  api' = [api EXCEPT !.at = "returned again", !.again = out]
    /\ UNCHANGED avars

\* Zone.Validate runs, and returns unless it panics
DoZoneValidate ==
    /\ api.fn = "Zone.Validate"
    /\ api.at = "called"
    /\ LET out == ZoneValidate(api.args.zone)
       IN  api' = IF out.err = IndexPanic THEN [api EXCEPT !.at = "panicked"]
                  ELSE Returned(out)
    /\ UNCHANGED avars

\* Zone.Validate is called once more on the zone it has accepted, as the
\* handler calls it for every request
DoZoneValidateAgain ==
    /\ api.fn = "Zone.Validate"
    /\ api.at = "returned"
    /\ api.out.err = NoErr
    /\ api' = [api EXCEPT !.at = "returned again", !.again = ZoneValidate(api.out.zone)]
    /\ UNCHANGED avars

\* Set.Validate runs and returns
DoSetValidate ==
    /\ api.fn = "Set.Validate"
    /\ api.at = "called"
    /\ api' = Returned(SetValidate(api.args.set))
    /\ UNCHANGED avars

\* transferCase runs and returns
DoTransferCase ==
    /\ api.fn = "transferCase"
    /\ api.at = "called"
    /\ api' = Returned(transferCase(api.args.source, api.args.destination))
    /\ UNCHANGED avars

\* Record.Validate runs and returns
DoRecordValidate ==
    /\ api.fn = "Record.Validate"
    /\ api.at = "called"
    /\ api' = Returned(RecordValidate(api.args.record, api.args.typ))
    /\ UNCHANGED avars

\* TrimZone runs and returns
DoTrimZone ==
    /\ api.fn = "TrimZone"
    /\ api.at = "called"
    /\ api' = Returned(TrimZone(api.args.zone, api.args.name))
    /\ UNCHANGED avars

ApiNext ==
    \/ Call \/ DoLookup \/ DoLookupAgain \/ DoZoneValidate \/ DoSetValidate
    \/ DoTransferCase \/ DoRecordValidate \/ DoTrimZone \/ DoZoneValidateAgain

ApiSpec == Init /\ [][ApiNext]_vars

(***************************************************************************)
(* Properties.                                                             *)
(***************************************************************************)
\* the handler has returned after writing a reply
Replied == pc = "done" /\ Len(wire) > 0

\* the reply handed to WriteMsg, and the network it went to
TheReply == wire[1].msg
TheNet == wire[1].net

\* what Zone.Handler returned for a name it has been asked for
Asked(name) == hsets[TrimZone(zone.Name, name)] # 0
Given(name) ==
    LET key == TrimZone(zone.Name, name)
    IN  HandlerResult(key, hsets[key])

\* the types of the sets Zone.Handler returned for a name
TypesAt(name) == {Given(name).sets[k].Type : k \in 1..Len(Given(name).sets)}

\* the sets returned for a name pass Set.Validate and have distinct types
SoundAt(name) ==
    /\ Given(name).err = NoErr
    /\ \A k \in 1..Len(Given(name).sets) : SetValidate(Given(name).sets[k]).err = NoErr
    /\ Cardinality(TypesAt(name)) = Len(Given(name).sets)

\* C1: a lookup fetches from Zone.Handler at most 8 times and then returns,
\* also when the zone holds an in-zone CNAME cycle
C1_FetchBound == InZone(zone.Name, QName) => lk.i <= 8

\* an accepted query of a supported type for a name of a valid zone, after
\* Zone.Handler has been asked for the name
Looked ==
    /\ Replied
    /\ resolved = "zone"
    /\ ZoneValidate(zone).err = NoErr
    /\ TypeValid(req.Qtype)
    /\ InZone(zone.Name, QName)
    /\ Asked(QName)

\* Zone.Handler returned no set for the queried name
NoSets == Given(QName).err = NoErr /\ Len(Given(QName).sets) = 0

\* Zone.Handler returned sets for the queried name, none of the queried type
\* and none of type CNAME
OtherSets ==
    /\ SoundAt(QName)
    /\ Len(Given(QName).sets) >= 1
    /\ req.Qtype \notin TypesAt(QName)
    /\ "CNAME" \notin TypesAt(QName)

\* C2 as stated: a name without sets is answered NXDOMAIN, a name that has
\* sets but none of the queried type (and no CNAME) is answered NOERROR, and
\* the answer section is empty in both cases
C2_AsStated ==
    Looked =>
        /\ NoSets => TheReply.Rcode = "NXDOMAIN" /\ TheReply.Answer = <<>>
        /\ OtherSets => TheReply.Rcode = "NOERROR" /\ TheReply.Answer = <<>>

\* C2 amended: as C2, but a truncated reply to a name without sets has
\* RCODE=NOERROR (and TC=1) instead of NXDOMAIN
C2_MissingCodes ==
    Looked =>
        /\ NoSets =>
            /\ TheReply.Answer = <<>>
            /\ TheReply.Rcode = IF TheReply.Truncated THEN "NOERROR" ELSE "NXDOMAIN"
        /\ OtherSets => TheReply.Rcode = "NOERROR" /\ TheReply.Answer = <<>>

\* a NODATA reply has been written in full
C2_Witness ==
    /\ Looked
    /\ OtherSets
    /\ ~TheReply.Truncated
    /\ TheReply.Rcode = "NOERROR"
    /\ Len(TheReply.Ns) = 1

\* Zone.Handler returned for the name sets that satisfy the set invariants
WellFormedAt(name) ==
    /\ SoundAt(name)
    /\ "CNAME" \in TypesAt(name) =>
           Len(Given(name).sets) = 1 /\ TrimZone(zone.Name, name) # <<>>

\* every result Zone.Handler has given for this request is well formed
AllWellFormed == \A n \in FetchNames : Asked(n) => WellFormedAt(n)

\* the CNAME records of the answer section
AnswerCNAMEs == SelectSeq(TheReply.Answer, LAMBDA rr : rr.Rrtype = "CNAME")

\* the target of the last CNAME record of the answer section
LastTarget == AnswerCNAMEs[Len(AnswerCNAMEs)].Target

\* the name Zone.Handler was asked for the set of a record of the reply: the
\* owner of the record, which is in the letter case of the question
Owner(rr) == ToLower(rr.Name)

\* the set of type t that Zone.Handler returned for the name
SetAt(name, t) ==
    LET sets == Given(name).sets
    IN  sets[CHOOSE k \in 1..Len(sets) : sets[k].Type = t]

\* the answer section is a CNAME chain from the queried name: the CNAME
\* records come first, each is the set Zone.Handler gave for its owner, each
\* target but the last lies in the zone and owns the next record, and the
\* records after them are the set of the queried type at the last target,
\* if that target lies in the zone and has one
ChainAnswer ==
    LET ans == TheReply.Answer
        n   == Len(AnswerCNAMEs)
        has == /\ InZone(zone.Name, LastTarget)
               /\ req.Qtype \in TypesAt(LastTarget)
    IN  /\ n >= 1
        /\ \A k \in 1..n : ans[k].Rrtype = "CNAME"
        /\ ToLower(ans[1].Name) = QName
        /\ \A k \in 1..n :
              /\ Asked(Owner(ans[k]))
              /\ Given(Owner(ans[k])).sets = <<CNAMESet(ToLower(ans[k].Name), ans[k].Target)>>
        /\ \A k \in 1..(n - 1) :
              /\ InZone(zone.Name, ans[k].Target)
              /\ ToLower(ans[k + 1].Name) = ToLower(ans[k].Target)
        /\ InZone(zone.Name, LastTarget) => Asked(LastTarget)
        /\ SubSeq(ans, n + 1, Len(ans)) =
              IF has THEN convert(req.Name, zone, SetAt(LastTarget, req.Qtype))
              ELSE <<>>

\* a query of a type other than CNAME at a name that owns a CNAME set, the
\* sets met on the way being well formed
ChaseQuery ==
    /\ Looked
    /\ req.Qtype # "CNAME"
    /\ AllWellFormed
    /\ TypesAt(QName) = {"CNAME"}

\* C3 as stated: the answer to a query of a type other than CNAME at a name
\* with a CNAME set is the chain of CNAME sets in the order visited, ended by
\* the set of the queried type at the last in-zone target if it has one, and
\* the reply has RCODE=NOERROR
C3_AsStated == ChaseQuery => TheReply.Rcode = "NOERROR" /\ ChainAnswer

\* C3 amended: as C3 for every reply that is not truncated; a truncated reply
\* has RCODE=NOERROR and an empty answer section
C3_ChainOrder ==
    ChaseQuery =>
        /\ TheReply.Rcode = "NOERROR"
        /\ IF TheReply.Truncated THEN TheReply.Answer = <<>> ELSE ChainAnswer

\* a chain of two CNAME sets and the set of the queried type has been answered
C3_Witness ==
    /\ ChaseQuery
    /\ ~TheReply.Truncated
    /\ Len(AnswerCNAMEs) >= 2
    /\ Len(TheReply.Answer) > Len(AnswerCNAMEs)

\* a chain that stops at a target outside the zone has been answered
C3_WitnessOutside ==
    /\ ChaseQuery
    /\ ~TheReply.Truncated
    /\ Len(AnswerCNAMEs) >= 1
    /\ ~InZone(zone.Name, LastTarget)

\* what Zone.Handler returned for the name breaks a set invariant: two sets
\* of one type, a CNAME set at the apex, or a CNAME set next to another set
BreaksInvariant(name) ==
    /\ Given(name).err = NoErr
    /\ \/ Cardinality(TypesAt(name)) < Len(Given(name).sets)
       \/ "CNAME" \in TypesAt(name) /\ TrimZone(zone.Name, name) = <<>>
       \/ "CNAME" \in TypesAt(name) /\ Len(Given(name).sets) > 1

\* C4: once Zone.Handler has returned, for any name that a lookup for a name
\* of the zone visits, sets that break a set invariant, the lookup has failed with an error, nil results and
\* exists=false, and the reply is SERVFAIL (or its truncation)
C4_SetInvariants ==
    \A n \in FetchNames :
        resolved = "zone" /\ InZone(zone.Name, QName) /\ Asked(n) /\ BreaksInvariant(n) =>
            /\ pc \in {"result", "glueresult", "done"}
            /\ ret.err # NoErr /\ ret.res = <<>> /\ ~ret.exists
            /\ Replied => TheReply.Rcode = "SERVFAIL" \/ TheReply.Truncated

\* C5: a reply whose RCODE is SERVFAIL, REFUSED, NOTIMP or BADVERS has an
\* empty answer section and an empty authority section
C5_ErrorsCarryNothing ==
    Replied /\ TheReply.Rcode \in {"SERVFAIL", "REFUSED", "NOTIMP", "BADVERS"} =>
        TheReply.Answer = <<>> /\ TheReply.Ns = <<>>

\* the error that Config.Handler, Zone.Validate or a lookup (Zone.Handler or
\* the validation of its sets) returned to the handler, NoErr if none did
BackendErr ==
    IF resolved = "error" THEN "resolver error"
    ELSE IF resolved = "zone" /\ ZoneValidate(zone).err # NoErr THEN ZoneValidate(zone).err
    ELSE IF resolved = "zone" THEN ret.err
    ELSE NoErr

\* the BackendError events of the request
BackendErrors == SelectSeq(events, LAMBDA ev : ev.e = "BackendError")

\* exactly one BackendError event carries the error, ahead of the Response event
LoggedOnce ==
    /\ BackendErrors = <<[e |-> "BackendError", err |-> BackendErr]>>
    /\ \A i, j \in 1..Len(events) :
          events[i].e = "BackendError" /\ events[j].e = "Response" => i < j

\* C6 as stated: an error of the backend makes the reply SERVFAIL and is
\* logged in exactly one BackendError event, ahead of the Response event
C6_AsStated ==
    Replied /\ BackendErr # NoErr => TheReply.Rcode = "SERVFAIL" /\ LoggedOnce

\* C6 amended: as C6, but a truncated reply has RCODE=NOERROR (and TC=1)
\* instead of SERVFAIL
C6_BackendErrors ==
    Replied /\ BackendErr # NoErr =>
        /\ TheReply.Rcode = IF TheReply.Truncated THEN "NOERROR" ELSE "SERVFAIL"
        /\ LoggedOnce

\* a failed glue lookup has been answered SERVFAIL and logged, and the reply
\* was written
C6_Witness ==
    /\ Replied
    /\ lk.needle = {"A", "AAAA"}
    /\ ret.err # NoErr
    /\ TheReply.Rcode = "SERVFAIL"
    /\ \E j \in 1..Len(events) : events[j].e = "Response"

\* the reply is an NXDOMAIN reply
IsNXDOMAIN == TheReply.Rcode = "NXDOMAIN"

\* the reply is a NODATA reply: success without answer (and not a truncation)
IsNODATA ==
    /\ TheReply.Rcode = "NOERROR"
    /\ TheReply.Answer = <<>>
    /\ ~TheReply.Truncated

\* s is the duration d (in milliseconds) in whole seconds, rounded up
InSeconds(s, d) == s * 1000 >= d /\ (s - 1) * 1000 < d

\* C7: the authority section of a NODATA or NXDOMAIN reply is exactly one SOA
\* record (so no NS record), owned by zone.Name, with MNAME
\* zone.MasterNameServer, SERIAL 1, the timers of the zone and MINIMUM
\* zone.MinTTL in seconds
C7_MissingAuthority ==
    Replied /\ (IsNXDOMAIN \/ IsNODATA) =>
        /\ Len(TheReply.Ns) = 1
        /\ LET soa == TheReply.Ns[1]
           IN  /\ soa.Rrtype = "SOA"
               /\ soa.Name = zone.Name
               /\ soa.Ns = zone.MasterNameServer
               /\ soa.Serial = 1
               /\ InSeconds(soa.Refresh, zone.Refresh)
               /\ InSeconds(soa.Retry, zone.Retry)
               /\ InSeconds(soa.Expire, zone.Expire)
               /\ InSeconds(soa.Minttl, zone.MinTTL)

\* a NODATA reply has been written for a zone whose MinTTL differs from its
\* other times
C7_Witness ==
    /\ Replied
    /\ IsNODATA
    /\ Len(TheReply.Ns) = 1
    /\ zone.MinTTL # zone.SOATTL

\* the records of the additional section that are not OPT records
Glue == SelectSeq(TheReply.Extra, LAMBDA rr : rr.Rrtype # "OPT")

\* the records rrs are part of the additional section
InGlue(rrs) == \A k \in 1..Len(rrs) : \E j \in 1..Len(Glue) : Glue[j] = rrs[k]

\* C8: in a positive reply with MX records, the additional section holds, for
\* each MX target in the zone, the A set and the AAAA set the target has, and
\* nothing for an MX target outside the zone
C8_GlueComplete ==
    Replied /\ TheReply.Rcode = "NOERROR" /\ ~TheReply.Truncated =>
        \A k \in 1..Len(TheReply.Answer) :
            TheReply.Answer[k].Rrtype = "MX" =>
                LET target == TheReply.Answer[k].Mx
                IN  IF InZone(zone.Name, target)
                    THEN /\ Asked(target)
                         /\ \A t \in {"A", "AAAA"} :
                               WellFormedAt(target) /\ t \in TypesAt(target) =>
                                   InGlue(convert(req.Name, zone, SetAt(target, t)))
                    ELSE \A j \in 1..Len(Glue) : ToLower(Glue[j].Name) # ToLower(target)

\* the limit of a UDP reply: the size the request advertises, or 512 without OPT
Limit == IF req.Edns THEN req.UDPSize ELSE 512

\* C9: a UDP reply is no longer than the limit, or it has TC=1, RCODE=NOERROR
\* and empty answer and authority sections; a TCP reply is the message as it
\* was built, with TC=0, whatever its length
C9_Truncation ==
    Replied =>
        /\ TheNet = "udp" =>
              \/ MsgLen(TheReply) <= Limit
              \/ /\ TheReply.Truncated
                 /\ TheReply.Rcode = "NOERROR"
                 /\ TheReply.Answer = <<>>
                 /\ TheReply.Ns = <<>>
        /\ TheNet = "tcp" => ~TheReply.Truncated /\ TheReply = wire[1].full

\* a reply longer than 512 has been truncated on UDP for a request without OPT
C9_Witness ==
    /\ Replied
    /\ TheNet = "udp"
    /\ ~req.Edns
    /\ MsgLen(wire[1].full) > 512
    /\ TheReply.Truncated

\* a reply longer than 512 has been written in full on TCP
C9_WitnessTCP ==
    /\ Replied
    /\ TheNet = "tcp"
    /\ MsgLen(TheReply) > 512
    /\ Len(TheReply.Answer) > 0

\* the OPT records of the reply
ReplyOPT == SelectSeq(TheReply.Extra, LAMBDA rr : rr.Rrtype = "OPT")

\* C10: the reply to a request with an OPT record has exactly one OPT record,
\* which advertises BufferSize; the reply to a request without has none
C10_EdnsEchoed ==
    Replied => ReplyOPT = IF req.Edns THEN <<OptRR(BufferSize)>> ELSE <<>>

\* C11: an accepted query (of EDNS version 0) for whose name Config.Handler
\* returns no zone is answered REFUSED (or with the truncation of that reply),
\* not authoritative, with empty answer and authority sections, whatever its
\* type
C11_UnknownZoneRefused ==
    Replied /\ config = "nil" /\ ~BadVersion =>
        /\ TheReply.Rcode = "REFUSED" \/ TheReply.Truncated
        /\ ~TheReply.Authoritative
        /\ TheReply.Answer = <<>>
        /\ TheReply.Ns = <<>>

\* C12: for a request whose question is not of class IN no reply is written,
\* neither Config.Handler nor Zone.Handler is called, and the only event is
\* Ignored
C12_OtherClassDropped ==
    req # NoRequest /\ req.Qclass # "IN" =>
        /\ pc = "done"
        /\ wire = <<>>
        /\ resolved = "none"
        /\ \A k \in HandlerKeys : hsets[k] = 0
        /\ events = <<[e |-> "Ignored", err |-> NoErr]>>

\* a request of class CH, type ANY and EDNS version 1 has been dropped
C12_Witness ==
    /\ pc = "done"
    /\ req.Qclass = "CH"
    /\ req.Qtype = "ANY"
    /\ req.Edns /\ req.Version # 0
    /\ wire = <<>>

\* the record types the library is said to serve
ServedTypes == {"A", "AAAA", "CNAME", "MX", "TXT", "NS"}

\* C13: past the apex SOA and NS shortcuts, a query of type A, AAAA, CNAME, MX,
\* TXT or NS for a name of a valid zone is resolved with the sets of
\* Zone.Handler, and a query of any other type is answered NXDOMAIN with the
\* SOA record in authority (or with the truncation of that reply) without a
\* call of Zone.Handler
C13_ServedTypes ==
    /\ Replied /\ resolved = "zone" /\ ZoneValidate(zone).err = NoErr
    /\ ~(req.Qtype \in {"SOA", "NS"} /\ ToLower(req.Name) = ToLower(zone.Name))
    =>  IF req.Qtype \in ServedTypes THEN Asked(QName)
        ELSE /\ \A k \in HandlerKeys : hsets[k] = 0
             /\ \/ TheReply.Truncated
                \/ /\ TheReply.Rcode = "NXDOMAIN"
                   /\ TheReply.Answer = <<>>
                   /\ Len(TheReply.Ns) = 1 /\ TheReply.Ns[1].Rrtype = "SOA"

\* a query at the apex of a valid zone, names compared without regard to case
AtApex ==
    /\ Replied
    /\ resolved = "zone"
    /\ ZoneValidate(zone).err = NoErr
    /\ ToLower(req.Name) = ToLower(zone.Name)

\* the records are the NS records of all name servers of the zone, in order
FullNSSet(rrs) ==
    /\ Len(rrs) = Len(zone.AllNameServers)
    /\ \A k \in 1..Len(rrs) :
          rrs[k].Rrtype = "NS" /\ rrs[k].Ns = zone.AllNameServers[k]

\* C14: an SOA query at the apex is answered NOERROR with the SOA record of
\* the zone as the only answer and the full NS set in authority, an NS query at
\* the apex NOERROR with the full NS set as answer and an empty authority
\* section (or, either of them, with the truncation of that reply), and
\* Zone.Handler is not called
C14_ApexShortcuts ==
    AtApex /\ req.Qtype \in {"SOA", "NS"} =>
        /\ \A k \in HandlerKeys : hsets[k] = 0
        /\ TheReply.Rcode = "NOERROR"
        /\ \/ TheReply.Truncated
           \/ /\ req.Qtype = "SOA"
              /\ Len(TheReply.Answer) = 1
              /\ TheReply.Answer[1].Rrtype = "SOA"
              /\ TheReply.Answer[1].Name = zone.Name
              /\ FullNSSet(TheReply.Ns)
           \/ /\ req.Qtype = "NS"
              /\ FullNSSet(TheReply.Answer)
              /\ TheReply.Ns = <<>>

\* the records of the answer and additional sections that come from sets of
\* Zone.Handler
HandlerRecords ==
    SelectSeq(TheReply.Answer \o TheReply.Extra, LAMBDA rr : TypeValid(rr.Rrtype))

\* the larger of two durations
MaxDuration(a, b) == IF a < b THEN b ELSE a

\* the names whose set of the type of record rr Zone.Handler has given, the
\* name of the set being written in the case of the question as rr is named
Sources(rr) ==
    {n \in FetchNames :
        /\ Asked(n)
        /\ LET given == Given(n)
           IN  /\ given.err = NoErr
               /\ \E k \in 1..Len(given.sets) :
                     /\ given.sets[k].Type = rr.Rrtype
                     /\ rr.Name = transferCase(req.Name, given.sets[k].Name)}

\* C15: every record of a reply that comes from a set of Zone.Handler carries
\* the TTL max(set.TTL, zone.MinTTL) in seconds, which is not below zone.MinTTL
C15_TTLClamp ==
    Replied /\ resolved = "zone" =>
        \A k \in 1..Len(HandlerRecords) :
            LET rr == HandlerRecords[k]
            IN  /\ \E n \in Sources(rr) :
                      InSeconds(rr.Ttl, MaxDuration(SetAt(n, rr.Rrtype).TTL, zone.MinTTL))
                /\ rr.Ttl * 1000 >= zone.MinTTL

\* a reply carries a record of a set whose TTL is set and below zone.MinTTL
C15_Witness ==
    /\ Replied /\ resolved = "zone"
    /\ \E k \in 1..Len(HandlerRecords) :
          \E n \in Sources(HandlerRecords[k]) :
              LET ttl == SetAt(n, HandlerRecords[k].Rrtype).TTL
              IN  0 < ttl /\ ttl < zone.MinTTL

\* C16: a record of a set that Zone.Handler returns with TTL zero carries the
\* TTL max(5 minutes, zone.MinTTL) in seconds
C16_DefaultTTL ==
    Replied /\ resolved = "zone" =>
        \A k \in 1..Len(HandlerRecords) :
            LET rr == HandlerRecords[k]
            IN  \A n \in Sources(rr) :
                    SetAt(n, rr.Rrtype).TTL = 0 =>
                        InSeconds(rr.Ttl, MaxDuration(5 * Minute, zone.MinTTL))

\* a listener is shut down for good: it neither serves nor can start to serve
ShutDown(state) == state \notin {"spawned", "serving"}

\* C17: when Run has returned both listeners are shut down, and Run has
\* returned the first listener error or, after Close, nil
C17_RunShutsDown ==
    srv.run = "returned" =>
        /\ ShutDown(srv.udp) /\ ShutDown(srv.tcp)
        /\ \/ srv.err = "listen error"
           \/ srv.err = NoErr /\ srv.close = "closed"

\* C18: no call of Close fails, however many are made
C18_CloseIdempotent == srv.panics = 0

\* C19: of two requests for one zone that are handled in parallel, each
\* replies with the name servers in the order a sequential run gives
C19_ParallelAsSequential ==
    \A p \in Procs :
        par.at[p] = "done" => par.out[p] = SortStrings(TestZone.AllNameServers)

\* the events of the request hold exactly one Finish, and it is the last
FinishedOnce ==
    /\ Len(events) >= 2
    /\ events[Len(events)].e = "Finish"
    /\ \A k \in 1..(Len(events) - 1) : events[k].e # "Finish"

\* C20: a request that was logged is in the end finished, with exactly one
\* Finish, which stays its last event
C20_RequestFinished ==
    (Len(events) >= 1 /\ events[1].e = "Request") ~> [](FinishedOnce)

\* a query of type CNAME at a name for which Zone.Handler returned a lone
\* valid CNAME set
CnameQuery ==
    /\ Looked
    /\ req.Qtype = "CNAME"
    /\ WellFormedAt(QName)
    /\ TypesAt(QName) = {"CNAME"}

\* the answer section is the CNAME set of the queried name and nothing else
OnlyTheCNAME == TheReply.Answer = convert(req.Name, zone, SetAt(QName, "CNAME"))

\* Zone.Handler has been asked once, for the queried name
FetchedOnce ==
    /\ lk.i = 1
    /\ \A n \in FetchNames :
           Asked(n) => TrimZone(zone.Name, n) = TrimZone(zone.Name, QName)

\* C23 as stated: a query of type CNAME for a name that owns a CNAME set is
\* answered with exactly that CNAME set, Zone.Handler is asked once and no
\* record of the target is in the answer
C23_AsStated == CnameQuery => OnlyTheCNAME /\ FetchedOnce

\* C23 amended: as C23 for every reply that is not truncated; a truncated
\* reply has an empty answer section, and Zone.Handler is asked once all the
\* same
C23_CnameNotFollowed ==
    CnameQuery =>
        /\ FetchedOnce
        /\ IF TheReply.Truncated THEN TheReply.Answer = <<>> ELSE OnlyTheCNAME

\* a CNAME query for a name whose CNAME set points into the zone has been
\* answered in full
C23_Witness ==
    /\ CnameQuery
    /\ ~TheReply.Truncated
    /\ InZone(zone.Name, SetAt(QName, "CNAME").Records[1].Address)
    /\ Len(TheReply.Answer) = 1

\* a message has arrived
Arrived == pc # "idle"

\* the message that arrived has been handed to the handler
Passed == pc = "accepted" \/ req # NoRequest

\* the records of the answer, authority and additional sections of the request
PayloadRecords ==
    {req.Answer[k] : k \in 1..Len(req.Answer)}
    \cup {req.Ns[k] : k \in 1..Len(req.Ns)}
    \cup {req.Extra[k] : k \in 1..Len(req.Extra)}

\* the records of the three sections of the reply
ReplyRecords ==
    {TheReply.Answer[k] : k \in 1..Len(TheReply.Answer)}
    \cup {TheReply.Ns[k] : k \in 1..Len(TheReply.Ns)}
    \cup {TheReply.Extra[k] : k \in 1..Len(TheReply.Extra)}

\* C24: a message that has arrived is handed to the handler if and only if
\* it is not a response, its opcode is QUERY and it has one question,
\* whatever its other counts; a message that is not handed on leaves no
\* request, no reply and no event but Ignored; and no record of the sections
\* of an accepted request is in the reply
C24_AcceptFilter ==
    Arrived =>
        /\ Passed <=> (~hdr.Response /\ hdr.Opcode = OpcodeQuery /\ hdr.Qdcount = 1)
        /\ ~Passed => req = NoRequest /\ wire = <<>> /\ events = <<Ev("Ignored")>>
        /\ Replied => PayloadRecords \cap ReplyRecords = {}

\* a request with records in its three sections has been answered in full
C24_Witness ==
    /\ Replied
    /\ hdr.Ancount = 2 /\ hdr.Nscount = 1 /\ hdr.Arcount = 1
    /\ ~TheReply.Truncated
    /\ Len(TheReply.Answer) >= 1

\* a message with two questions has been dropped
C24_WitnessDropped ==
    /\ pc = "done"
    /\ ~hdr.Response /\ hdr.Opcode = OpcodeQuery /\ hdr.Qdcount = 2
    /\ events = <<Ev("Ignored")>>

\* the handler has been called with a request and has returned
Handled == pc = "done" /\ req # NoRequest

\* the request passes the checks the handler makes before it calls
\* Config.Handler: the class, the EDNS version and the type ANY
Resolvable == req.Qclass = "IN" /\ ~BadVersion /\ req.Qtype # "ANY"

C32_WitnessRefused ==
    /\ Replied
    /\ resolved = "nil"
    /\ ~TheReply.Authoritative

\* a set of the type of record rr that Zone.Handler has given has the owner
\* name of rr, whatever the letter case
NamedAsItsSet(rr) ==
    \E n \in FetchNames :
        /\ Asked(n)
        /\ Given(n).err = NoErr
        /\ \E k \in 1..Len(Given(n).sets) :
              /\ Given(n).sets[k].Type = rr.Rrtype
              /\ ToLower(Given(n).sets[k].Name) = ToLower(rr.Name)

\* C35: in a positive reply the owner name of every answer and additional
\* record is, letter case aside, the name of a set Zone.Handler has given,
\* and the owner name of every authority NS record is, letter case aside,
\* the name of the zone
C35_OwnerNames ==
    (Replied /\ resolved = "zone" /\ TheReply.Rcode = "NOERROR" /\ Len(TheReply.Answer) > 0) =>
        /\ \A k \in 1..Len(TheReply.Answer) :
              TheReply.Answer[k].Rrtype \notin {"SOA", "NS"} => NamedAsItsSet(TheReply.Answer[k])
        /\ \A k \in 1..Len(TheReply.Extra) :
              TheReply.Extra[k].Rrtype # "OPT" => NamedAsItsSet(TheReply.Extra[k])
        /\ \A k \in 1..Len(TheReply.Ns) :
              TheReply.Ns[k].Rrtype = "NS" =>
                  ToLower(TheReply.Ns[k].Name) = ToLower(zone.Name)

C40_Preference ==
    (Replied /\ resolved = "zone" /\ TheReply.Rcode = "NOERROR") =>
        \A k \in 1..Len(TheReply.Answer) :
            LET rr == TheReply.Answer[k]
            IN  rr.Rrtype = "MX" =>
                    \E n \in Sources(rr) :
                        \E j \in 1..Len(SetAt(n, "MX").Records) :
                            /\ Fqdn(SetAt(n, "MX").Records[j].Address) = rr.Mx
                            /\ SetAt(n, "MX").Records[j].Priority = rr.Preference

(***************************************************************************)
(* Properties of the calls made on their own.                              *)
(***************************************************************************)
\* a call of Server.lookup has returned
LookedUp == api.fn = "lookup" /\ api.at \in {"returned", "returned again"}

\* C21: a lookup for a name that does not lie in the zone has failed with an
\* error, nil results and exists=false, and has not called Zone.Handler
C21_OutsideRejected ==
    LookedUp /\ ~InZone(api.args.zone.Name, api.args.name) =>
        /\ api.out.err # NoErr
        /\ api.out.res = <<>>
        /\ ~api.out.exists
        /\ api.out.fetched = 0

\* what Zone.Handler returns for the name a lookup call starts at
FirstGiven == CallHandler(api.args.handler, TrimZone(api.args.zone.Name, api.args.name))

\* the owner of the set is a valid FQDN, equals the name without regard to
\* case and lies in the zone
OwnerSound(z, name, set) ==
    /\ IsDomain(set.Name, TRUE)
    /\ ToLower(set.Name) = ToLower(name)
    /\ InZone(z.Name, set.Name)

\* C22: a lookup for a name of the zone, for which Zone.Handler returns a set
\* whose owner is not a valid FQDN, is another name or lies outside the zone,
\* has failed with an error, nil results and exists=false
C22_OwnersChecked ==
    /\ LookedUp
    /\ InZone(api.args.zone.Name, api.args.name)
    /\ FirstGiven.err = NoErr
    /\ \E k \in 1..Len(FirstGiven.sets) :
           ~OwnerSound(api.args.zone, api.args.name, FirstGiven.sets[k])
    => /\ api.out.err # NoErr
       /\ api.out.res = <<>>
       /\ ~api.out.exists

\* a call of Zone.Validate has returned or panicked
ZoneValidated == api.fn = "Zone.Validate" /\ api.at # "called"

\* the duration, or its default if it is zero
OrDefault(d, default) == IF d = 0 THEN default ELSE d

\* the conditions under which a zone is valid: names, name servers, the
\* mailbox, and the two timer invariants on the timers with their defaults
ValidZone(z) ==
    LET email   == IF z.AdminEmail = <<>>
                   THEN <<"h", "o", "s", "t", "m", "a", "s", "t", "e", "r", "@">> \o z.Name
                   ELSE z.AdminEmail
        refresh == OrDefault(z.Refresh, 6 * Hour)
        retry   == OrDefault(z.Retry, Hour)
        expire  == OrDefault(z.Expire, 72 * Hour)
    IN  /\ IsDomain(z.Name, TRUE)
        /\ IsDomain(z.MasterNameServer, TRUE)
        /\ Len(z.AllNameServers) >= 1
        /\ \A k \in 1..Len(z.AllNameServers) : IsDomain(z.AllNameServers[k], TRUE)
        /\ emailHasAt(email)
        /\ IsDomain(emailToDomain(email), TRUE)
        /\ retry < refresh
        /\ expire - refresh >= retry

\* C25: Zone.Validate returns nil if and only if the names and name servers
\* are FQDNs, the admin email converts to a valid domain name and, with the
\* defaults in place of zero timers, Retry < Refresh and
\* Expire >= Refresh + Retry
C25_ValidIff ==
    ZoneValidated =>
        ((api.at = "returned" /\ api.out.err = NoErr) <=> ValidZone(api.args.zone))

\* the address is not of the form mailbox@domain
Malformed(email) == Len(Split(email, "@")) # 2

\* C26: Zone.Validate called with an admin email that is not of the form
\* mailbox@domain returns an error: it neither panics nor returns nil
C26_BadEmailReported ==
    /\ ZoneValidated
    /\ api.args.zone.AdminEmail # <<>>
    /\ Malformed(api.args.zone.AdminEmail)
    => api.at = "returned" /\ api.out.err # NoErr

\* a call of Set.Validate has returned nil
SetValid == api.fn = "Set.Validate" /\ api.at = "returned" /\ api.out.err = NoErr

\* C27: after Set.Validate has returned nil for a set whose type is not TXT,
\* no two records of the set have the same address
C27_NoDuplicateAddress ==
    SetValid /\ api.args.set.Type # "TXT" =>
        \A i, j \in 1..Len(api.out.set.Records) :
            i # j => api.out.set.Records[i].Address # api.out.set.Records[j].Address

\* the permutations of 1..n
Orders(n) == {f \in [1..n -> 1..n] : \A i, j \in 1..n : f[i] = f[j] => i = j}

\* C28: the order in which Set.Validate leaves the records of a valid set,
\* which is their order in a reply, is the same for every order in which
\* the same records are supplied
C28_OrderDetermined ==
    SetValid =>
        LET recs == api.args.set.Records
        IN  \A f \in Orders(Len(recs)) :
                SetValidate([api.args.set EXCEPT
                                !.Records = [k \in 1..Len(recs) |-> recs[f[k]]]]).set.Records
                    = api.out.set.Records

\* the last n characters of a string
Trailing(str, n) == SubSeq(str, Len(str) - n + 1, Len(str))

\* dst is a suffix of src when case is disregarded
IsSuffixFold(src, dst) ==
    /\ Len(dst) <= Len(src)
    /\ ToLower(Trailing(src, Len(dst))) = ToLower(dst)

\* C29: transferCase(src, dst) has returned the trailing |dst| characters of
\* src if dst is a case-insensitive suffix of src, and dst otherwise
C29_TransferCase ==
    api.fn = "transferCase" /\ api.at = "returned" =>
        api.out = IF IsSuffixFold(api.args.source, api.args.destination)
                  THEN Trailing(api.args.source, Len(api.args.destination))
                  ELSE api.args.destination

\* C30: a second call of the lookup with the same zone, name and types, made
\* after the first has returned and has sorted the sets the handler holds,
\* returns the same results, with the same record order and the same TTLs,
\* the same exists flag and the same error
C30_LookupIdempotent ==
    api.fn = "lookup" /\ api.at = "returned again" =>
        /\ api.again.res = api.out.res
        /\ api.again.exists = api.out.exists
        /\ api.again.err = api.out.err

\* two calls have returned a set whose records the handler held in another
\* order, and whose TTL it left at zero
C30_Witness ==
    /\ api.fn = "lookup" /\ api.at = "returned again"
    /\ api.out.err = NoErr
    /\ Len(api.out.res) = 1
    /\ api.out.res[1].set.TTL = 0
    /\ api.out.res[1].set.Records #
           CallHandler(api.args.handler, TrimZone(api.args.zone.Name, api.args.name)).sets[1].Records
    /\ api.out.res[1].set.Type = CallHandler(api.args.handler, TrimZone(api.args.zone.Name, api.args.name)).sets[1].Type

\* the string is an IPv4 address in dotted form
IsIPv4(s) == s \in IPv4Literals

\* the string is an IPv6 address
IsIPv6(s) == s \in IPv6Literals

\* C33: a record validates if and only if, for type A, its address is an
\* IPv4 address, for AAAA an IPv6 address, for CNAME and MX a fully
\* qualified domain name, and for TXT its data is not empty and no element
\* is longer than 255 bytes
C33_TypeIndexed ==
    api.fn = "Record.Validate" /\ api.at = "returned" =>
        LET r == api.args.record
            t == api.args.typ
        IN  api.out = NoErr <=>
                CASE t = "A"    -> IsIPv4(r.Address)
                  [] t = "AAAA" -> IsIPv6(r.Address)
                  [] t \in {"CNAME", "MX"} -> IsDomainName(r.Address) /\ IsFqdn(r.Address)
                  [] t = "TXT"  -> /\ Len(r.Data) > 0
                                   /\ \A k \in 1..Len(r.Data) : r.Data[k].len <= 255

\* TrimZone has returned
Trimmed == api.fn = "TrimZone" /\ api.at = "returned"

\* the labels of a name in lower case
LowerLabels(nm) == SplitDomainName(ToLower(nm))

\* both are domain names, and the labels of the zone are the last labels of
\* the name, whatever the letter case
LabelsBelow(zn, nm) ==
    LET zl == LowerLabels(zn)
        nl == LowerLabels(nm)
    IN  /\ IsDomainName(zn) /\ IsDomainName(nm)
        /\ Len(zl) <= Len(nl)
        /\ SubSeq(nl, Len(nl) - Len(zl) + 1, Len(nl)) = zl

\* the name is the apex of the zone; the name lies strictly below it
IsApex(zn, nm) == LabelsBelow(zn, nm) /\ Len(LowerLabels(nm)) = Len(LowerLabels(zn))
StrictlyBelow(zn, nm) == LabelsBelow(zn, nm) /\ Len(LowerLabels(nm)) > Len(LowerLabels(zn))

\* the result, a dot and the zone name
Rejoined == api.out \o <<".">> \o api.args.zone

\* C34 as stated: TrimZone returns a name outside the zone unchanged, the
\* empty string at the apex and, for a name strictly below the zone, a
\* string that gives back the name when it is joined with a dot and the
\* zone name; the result for a name is empty exactly at the apex
C34_AsStated ==
    Trimmed =>
        LET zn == api.args.zone
            nm == api.args.name
        IN  /\ ~LabelsBelow(zn, nm) => api.out = nm
            /\ IsApex(zn, nm) => api.out = <<>>
            /\ StrictlyBelow(zn, nm) => Rejoined = nm
            /\ nm # <<>> => (api.out = <<>> <=> IsApex(zn, nm))

\* C34: as C34, the result for a name strictly below the zone being the
\* leading part of the name that holds its labels in front of those of the
\* zone, and the joined string being the name up to letter case if the zone
\* is not the root and zone and name both end in a dot or both do not
C34_TrimZone ==
    Trimmed =>
        LET zn == api.args.zone
            nm == api.args.name
        IN  /\ ~LabelsBelow(zn, nm) => api.out = nm
            /\ IsApex(zn, nm) => api.out = <<>>
            /\ StrictlyBelow(zn, nm) =>
                  /\ api.out = SubSeq(nm, 1, Len(api.out))
                  /\ Len(LowerLabels(api.out)) = Len(LowerLabels(nm)) - Len(LowerLabels(zn))
                  /\ (LowerLabels(zn) # <<>> /\ (IsFqdn(zn) <=> IsFqdn(nm))) =>
                         ToLower(Rejoined) = ToLower(nm)
            /\ nm # <<>> => (api.out = <<>> <=> IsApex(zn, nm))

\* a name two labels below the zone has lost the labels of the zone, whose
\* name is written in the other case
C34_Witness ==
    /\ Trimmed
    /\ api.args.zone = ApexUpper
    /\ api.args.name = <<"b", ".", "a", ".", "z", ".">>
    /\ api.out = <<"b", ".", "a">>

\* C37: every query that arrived at a listener of a Server has been handed to
\* the Config.Handler of that Server and, if it had an OPT record, answered
\* with the BufferSize of that Server
C37_OwnConfig ==
    \A k \in 1..Len(mux.replies) :
        LET r == mux.replies[k]
        IN  /\ r.by = ServerConfigs[r.at].Handler
            /\ r.edns => r.size = ServerConfigs[r.at].BufferSize

\* Zone.Validate has been called again on a zone it had accepted
ValidatedAgain == api.fn = "Zone.Validate" /\ api.at = "returned again"

\* C38: Zone.Validate called again on a zone it has accepted returns nil and
\* leaves every field of the zone as the first call left it
C38_ValidateIdempotent ==
    ValidatedAgain => api.again.err = NoErr /\ api.again.zone = api.out.zone

\* a zone with its name servers out of order and without admin email and
\* durations has been validated twice: the first call has changed it
C38_Witness ==
    /\ ValidatedAgain
    /\ api.args.zone.AllNameServers = <<NS2, NS1>>
    /\ api.args.zone.AdminEmail = <<>>
    /\ api.args.zone.Refresh = 0
    /\ api.out.zone.AllNameServers = <<NS1, NS2>>
    /\ api.out.zone.AdminEmail # <<>>
    /\ api.again.zone.Refresh = 6 * Hour

\* C39: in a zone that Zone.Validate has accepted Refresh, Retry, Expire,
\* SOATTL, NSTTL and MinTTL are all above zero
C39_PositiveDurations ==
    (api.fn = "Zone.Validate" /\ api.at = "returned" /\ api.out.err = NoErr) =>
        /\ api.out.zone.Refresh > 0
        /\ api.out.zone.Retry > 0
        /\ api.out.zone.Expire > 0
        /\ api.out.zone.SOATTL > 0
        /\ api.out.zone.NSTTL > 0
        /\ api.out.zone.MinTTL > 0

====
